---- MODULE Spec2Model ----
(***************************************************************************)
(* The HTML content processor of rspamd (src/libserver/html/html.cxx):     *)
(* the outer tokenizer rspamd_html_process_part_full, the attribute lexer  *)
(* parse_tag_content, the tree builder rspamd_html_process_tag and the URL *)
(* handling they drive.                                                    *)
(*                                                                         *)
(* A byte is a one-character string.  Positions in the input are 1-based:  *)
(* the C pointer p is the index p, and the pointer end is Len(in_data)+1.  *)
(* A pointer into a heap of records (tags, urls, tree nodes) is the index  *)
(* of the record in its sequence, and NULL is 0.                           *)
(***************************************************************************)
EXTENDS Integers, Sequences, FiniteSets, TLC

NULL == 0

(* ------------------------------ bytes --------------------------------- *)

Lower ==
    {"a", "b", "c", "d", "e", "f", "g", "h", "i", "j", "k", "l", "m",
     "n", "o", "p", "q", "r", "s", "t", "u", "v", "w", "x", "y", "z"}

Upper == {"P", "S"}

Digits == {"0", "1", "2", "3"}

SpaceBytes == {" ", "\n", "\t", "\r"}

Punct ==
    {"<", ">", "/", "!", "?", "-", "[", "]", "=", "\"", "'", "&", ";",
     ":", ".", "@", "#", "%"}

\* "^A" is the control byte 0x01, the one byte here that is neither graphic
\* nor white space.
Byte == Lower \cup Upper \cup Digits \cup SpaceBytes \cup Punct \cup {"^A"}

g_ascii_isspace(t) == t \in SpaceBytes

g_ascii_isalpha(t) == t \in Lower \cup Upper

g_ascii_isalnum(t) == t \in Lower \cup Upper \cup Digits

g_ascii_isgraph(t) == t \in Byte \ (SpaceBytes \cup {"^A"})

g_ascii_tolower(t) ==
    CASE t = "P" -> "p"
      [] t = "S" -> "s"
      [] OTHER -> t

(* ---------------------------- sequences ------------------------------- *)

Max(S) == CHOOSE x \in S : \A y \in S : y <= x

Min(S) == CHOOSE x \in S : \A y \in S : x <= y

\* The bytes [from, to) of a buffer.
Slice(buf, from, to) == SubSeq(buf, from, to - 1)

Last(s) == s[Len(s)]

\* Whether needle occurs in hay at offset k (0-based).
MatchAt(hay, needle, k) ==
    /\ k + Len(needle) <= Len(hay)
    /\ \A i \in 1..Len(needle) : hay[k + i] = needle[i]

\* Offset of the first occurrence of needle in hay, -1 when there is none.
rspamd_substring_search(hay, needle) ==
    LET hits == {k \in 0..Len(hay) : MatchAt(hay, needle, k)}
    IN  IF hits = {} THEN -1 ELSE Min(hits)

\* F applied to the value of v: v is computed once, whatever the number of
\* times F uses it.
With(v, F(_)) == CHOOSE r \in {F(x) : x \in {v}} : TRUE

RECURSIVE Concat(_)
Concat(ss) == IF ss = <<>> THEN <<>> ELSE Head(ss) \o Concat(Tail(ss))

(* ------------------------- entity decoding ---------------------------- *)

\* The entities the decoder table knows here, each with its replacement.
Entities ==
    { <<<<"&", "l", "t", ";">>, <<"<">>>>,
      <<<<"&", "g", "t", ";">>, <<">">>>>,
      <<<<"&", "a", "m", "p", ";">>, <<"&">>>> }

RECURSIVE decode_html_entitles_inplace(_)
decode_html_entitles_inplace(s) ==
    IF s = <<>> THEN <<>>
    ELSE With({e \in Entities : MatchAt(s, e[1], 0)}, LAMBDA hit :
             IF hit = {}
             THEN <<Head(s)>> \o decode_html_entitles_inplace(Tail(s))
             ELSE With(CHOOSE x \in hit : TRUE, LAMBDA e :
                      e[2] \o decode_html_entitles_inplace(
                                  SubSeq(s, Len(e[1]) + 1, Len(s)))))

rspamd_str_lc_utf8(s) == [i \in 1..Len(s) |-> g_ascii_tolower(s[i])]

(* --------------------------- tag registry ----------------------------- *)

Tag_UNKNOWN == "Tag_UNKNOWN"

\* id of a tag whose name is not in the registry (-1 in the source).
NoTagId == "-1"

html_tags_defs ==
    { [name |-> <<"a">>, id |-> "Tag_A", flags |-> {"FL_HREF"}],
      [name |-> <<"b">>, id |-> "Tag_B", flags |-> {"CM_INLINE"}],
      [name |-> <<"i">>, id |-> "Tag_I", flags |-> {"CM_INLINE"}],
      [name |-> <<"p">>, id |-> "Tag_P",
       flags |-> {"CM_BLOCK", "CM_OPT", "FL_BLOCK"}],
      [name |-> <<"b", "r">>, id |-> "Tag_BR",
       flags |-> {"CM_INLINE", "CM_EMPTY"}],
      [name |-> <<"h", "r">>, id |-> "Tag_HR",
       flags |-> {"CM_BLOCK", "CM_EMPTY"}],
      [name |-> <<"t", "r">>, id |-> "Tag_TR",
       flags |-> {"CM_TABLE", "CM_OPT", "FL_BLOCK"}],
      [name |-> <<"d", "i", "v">>, id |-> "Tag_DIV",
       flags |-> {"CM_BLOCK", "FL_BLOCK"}],
      [name |-> <<"i", "m", "g">>, id |-> "Tag_IMG",
       flags |-> {"CM_INLINE", "CM_IMG", "CM_EMPTY"}],
      [name |-> <<"l", "i", "n", "k">>, id |-> "Tag_LINK",
       flags |-> {"CM_HEAD", "CM_EMPTY", "FL_HREF"}],
      [name |-> <<"b", "a", "s", "e">>, id |-> "Tag_BASE",
       flags |-> {"CM_HEAD", "CM_EMPTY"}],
      [name |-> <<"h", "e", "a", "d">>, id |-> "Tag_HEAD",
       flags |-> {"CM_HTML", "CM_OPT", "CM_OMITST", "CM_UNIQUE"}],
      [name |-> <<"b", "o", "d", "y">>, id |-> "Tag_BODY",
       flags |-> {"CM_HTML", "CM_OPT", "CM_OMITST", "CM_UNIQUE", "FL_BLOCK"}],
      [name |-> <<"h", "t", "m", "l">>, id |-> "Tag_HTML",
       flags |-> {"CM_HTML", "CM_OPT", "CM_OMITST", "CM_UNIQUE"}],
      [name |-> <<"t", "i", "t", "l", "e">>, id |-> "Tag_TITLE",
       flags |-> {"CM_HEAD", "CM_UNIQUE"}],
      [name |-> <<"s", "t", "y", "l", "e">>, id |-> "Tag_STYLE",
       flags |-> {"CM_HEAD"}] }

\* The definitions the registry holds for a tag name: one or none.
by_name(name) == {d \in html_tags_defs : d.name = name}

html_components_map ==
    { <<<<"n", "a", "m", "e">>, "NAME">>,
      <<<<"h", "r", "e", "f">>, "HREF">>,
      <<<<"s", "r", "c">>, "HREF">>,
      <<<<"a", "c", "t", "i", "o", "n">>, "HREF">>,
      <<<<"c", "o", "l", "o", "r">>, "COLOR">>,
      <<<<"b", "g", "c", "o", "l", "o", "r">>, "BGCOLOR">>,
      <<<<"s", "t", "y", "l", "e">>, "STYLE">>,
      <<<<"c", "l", "a", "s", "s">>, "CLASS">>,
      <<<<"w", "i", "d", "t", "h">>, "WIDTH">>,
      <<<<"h", "e", "i", "g", "h", "t">>, "HEIGHT">>,
      <<<<"s", "i", "z", "e">>, "SIZE">>,
      <<<<"r", "e", "l">>, "REL">>,
      <<<<"a", "l", "t">>, "ALT">> }

\* std::nullopt
nullopt == "nullopt"

(* ------------------------- attribute lexer ---------------------------- *)

VARIABLES
    in_data,        \* in->data, in->len: the input buffer
    allow_css,      \* allow_css
    p,              \* p: the input position, Len(in_data) + 1 for end
    c,              \* c: the start of the pending text
    state,          \* state of the outer tokenizer
    closing,        \* closing
    need_decode,    \* need_decode
    save_space,     \* save_space
    dest,           \* dest: the visible text
    obrace,         \* obrace
    ebrace,         \* ebrace
    parser_env,     \* substate and savep: the state of the attribute lexer
    href_offset,    \* href_offset
    url,            \* url
    cur_tag,        \* cur_tag
    content_tag,    \* content_tag
    tags,           \* the html_tag records allocated from the pool
    hc_flags,       \* hc->flags
    tags_seen,      \* hc->tags_seen
    total_tags,     \* hc->total_tags
    nodes,          \* hc->html_tags: the GNode tree, node 1 the root sentinel
    bulk,           \* hc->html_tags: leaf nodes kept as a count (see Init)
    cur_level,      \* cur_level: the current open node
    urls,           \* the rspamd_url records allocated from the pool
    url_set,        \* url_set: the urls held by the caller's hash set
    part_urls,      \* part_urls: the array of newly inserted urls
    base_url,       \* hc->base_url
    bgcolor,        \* hc->bgcolor
    blocks,         \* hc->blocks
    styles_blocks,  \* styles_blocks: the queue of open blocks
    images,         \* hc->images
    exceptions,     \* *exceptions
    css_style,      \* hc->css_style: the texts handed to the CSS parser
    parsed,         \* whether the call has returned (hc->parsed is set)
    stall,          \* history: iterations since p last advanced
    dropped,        \* history: tags for which g_node_new was skipped
    last_call,      \* history: the last call of rspamd_html_process_tag
    given,          \* history: the attributes in_data was written from
    consumed,       \* history: the input bytes consumed before in_data
    run,            \* history: which run over in_data this is
    first_run       \* history: what the first run over in_data returned

\* rspamd_mempool_alloc0_type(pool, struct html_tag)
new_html_tag ==
    [id |-> Tag_UNKNOWN, flags |-> {}, name_begin |-> NULL, name |-> <<>>,
     parameters |-> <<>>, content_length |-> 0, content_offset |-> 0,
     parent |-> NULL, extra |-> NULL, extra_kind |-> "none"]

\* struct tag_content_parser_state after reset()
parser_env_reset ==
    [cur_state |-> "parse_start", saved_p |-> NULL, cur_component |-> nullopt]

find_tag_component_name(begin, end) ==
    IF end <= begin THEN nullopt
    ELSE With(decode_html_entitles_inplace(Slice(in_data, begin, end)),
              LAMBDA name :
         With({e \in html_components_map : e[1] = name}, LAMBDA hit :
              IF hit = {} THEN nullopt ELSE (CHOOSE e \in hit : TRUE)[2]))

\* The copy of the tag name into the temporary buffer.
rspamd_strlcpy(src) == src

has_parameter(tag, type) ==
    \E i \in 1..Len(tag.parameters) : tag.parameters[i].type = type

\* r is [tag, flags, env]: the tag, hc->flags and the parser_env of the call.
store_tag_component(r, pos) ==
    [r EXCEPT
        !.tag = IF /\ r.env.saved_p # NULL
                   /\ r.env.cur_component # nullopt
                   /\ pos > r.env.saved_p
                   /\ ~has_parameter(r.tag, r.env.cur_component)
                THEN [@ EXCEPT !.parameters = Append(@,
                        [type |-> r.env.cur_component,
                         val |-> decode_html_entitles_inplace(
                                     Slice(in_data, r.env.saved_p, pos))])]
                ELSE @,
        !.env.saved_p = NULL,
        !.env.cur_component = nullopt]

\* The end of an attribute name that a quote or a non-graphic byte at pos
\* closes: back from pos - 1 over the bytes that are not alphanumeric, never
\* past saved_p, and one forward.
attr_name_end_before(saved_p, pos) ==
    Max({k \in saved_p..(pos - 1) :
            k = saved_p \/ g_ascii_isalnum(in_data[k])}) + 1

lex_parse_start(r, pos, t) ==
    IF ~g_ascii_isalpha(t) /\ ~g_ascii_isspace(t)
    THEN [r EXCEPT !.flags = @ \cup {"BAD_ELEMENTS"},
                   !.env.cur_state = "ignore_bad_tag",
                   !.tag.id = NoTagId,
                   !.tag.flags = @ \cup {"FL_BROKEN"}]
    ELSE IF g_ascii_isalpha(t)
    THEN [r EXCEPT !.env.cur_state = "parse_name",
                   !.tag.name_begin = pos,
                   !.tag.name = <<>>]
    ELSE r

lex_name_found(r1, name, defs) ==
    IF defs = {}
    THEN [r1 EXCEPT !.flags = @ \cup {"UNKNOWN_ELEMENTS"},
                    !.tag.id = NoTagId,
                    !.tag.name = name,
                    !.env.cur_state = "spaces_after_name"]
    ELSE With(CHOOSE d \in defs : TRUE, LAMBDA tag_def :
             [r1 EXCEPT !.tag.id = tag_def.id,
                        !.tag.flags = tag_def.flags,
                        !.tag.name = name,
                        !.env.cur_state = "spaces_after_name"])

lex_name_end(r1, raw) ==
    IF raw = <<>>
    THEN [r1 EXCEPT !.flags = @ \cup {"BAD_ELEMENTS"},
                    !.tag.id = NoTagId,
                    !.tag.flags = @ \cup {"FL_BROKEN"},
                    !.tag.name = raw,
                    !.env.cur_state = "ignore_bad_tag"]
    ELSE With(rspamd_str_lc_utf8(
                  decode_html_entitles_inplace(rspamd_strlcpy(raw))),
              LAMBDA name :
         With(by_name(name), LAMBDA defs : lex_name_found(r1, name, defs)))

lex_parse_name(r, pos, t) ==
    IF g_ascii_isspace(t) \/ t = ">" \/ t = "/"
    THEN With(Slice(in_data, r.tag.name_begin, pos), LAMBDA raw :
             lex_name_end(IF t = "/"
                          THEN [r EXCEPT !.tag.flags = @ \cup {"FL_CLOSED"}]
                          ELSE r, raw))
    ELSE r

\* The tail of parse_attr_name: look the name up and keep or drop saved_p.
lex_attr_lookup(r, pos, attr_name_end) ==
    With(find_tag_component_name(r.env.saved_p, attr_name_end), LAMBDA comp :
        [r EXCEPT !.env.cur_component = comp,
                  !.env.saved_p = IF comp = nullopt THEN NULL
                                  ELSE IF r.env.cur_state = "parse_value"
                                  THEN pos + 1
                                  ELSE @])

lex_parse_attr_name(r, pos, t) ==
    IF r.env.saved_p = NULL
    THEN [r EXCEPT !.env.cur_state = "ignore_bad_tag"]
    ELSE IF t = "="
    THEN lex_attr_lookup([r EXCEPT !.env.cur_state = "parse_equal"], pos, pos)
    ELSE IF t = "\""
    THEN lex_attr_lookup([r EXCEPT !.env.cur_state = "parse_start_dquote"],
                         pos, attr_name_end_before(r.env.saved_p, pos))
    ELSE IF g_ascii_isspace(t)
    THEN lex_attr_lookup([r EXCEPT !.env.cur_state = "spaces_before_eq"],
                         pos, pos)
    ELSE IF t = "/"
    THEN lex_attr_lookup([r EXCEPT !.tag.flags = @ \cup {"FL_CLOSED"}],
                         pos, pos)
    ELSE IF ~g_ascii_isgraph(t)
    THEN lex_attr_lookup([r EXCEPT !.env.cur_state = "parse_value"],
                         pos, attr_name_end_before(r.env.saved_p, pos))
    ELSE r

lex_spaces_after_name(r, pos, t) ==
    IF ~g_ascii_isspace(t)
    THEN LET r1 == [r EXCEPT !.env.saved_p = pos]
         IN  IF t = "/"
             THEN [r1 EXCEPT !.tag.flags = @ \cup {"FL_CLOSED"}]
             ELSE IF t # ">"
             THEN [r1 EXCEPT !.env.cur_state = "parse_attr_name"]
             ELSE r1
    ELSE r

\* spaces_before_eq with a quote taken as the start of an attribute.
lex_spaces_before_eq_lenient(r, pos, t) ==
    IF t = "="
    THEN [r EXCEPT !.env.cur_state = "parse_equal"]
    ELSE IF ~g_ascii_isspace(t)
    THEN IF t = ">"
         THEN r
         ELSE [r EXCEPT !.env.cur_state = "parse_attr_name",
                        !.env.saved_p = pos]
    ELSE r

lex_spaces_before_eq(r, pos, t) ==
    IF t = "="
    THEN [r EXCEPT !.env.cur_state = "parse_equal"]
    ELSE IF ~g_ascii_isspace(t)
    THEN IF t = ">"
         THEN r
         ELSE IF t = "\"" \/ t = "'"
         THEN [r EXCEPT !.flags = @ \cup {"BAD_ELEMENTS"},
                        !.tag.flags = @ \cup {"FL_BROKEN"},
                        !.env.cur_state = "ignore_bad_tag"]
         ELSE [r EXCEPT !.env.cur_state = "parse_attr_name",
                        !.env.saved_p = pos]
    ELSE r

\* "We need to save this param": saved_p moves to pos when it is set.
save_param(r, pos) ==
    IF r.env.saved_p # NULL THEN [r EXCEPT !.env.saved_p = pos] ELSE r

lex_spaces_after_eq(r, pos, t) ==
    IF t = "\""
    THEN [r EXCEPT !.env.cur_state = "parse_start_dquote"]
    ELSE IF t = "'"
    THEN [r EXCEPT !.env.cur_state = "parse_start_squote"]
    ELSE IF ~g_ascii_isspace(t)
    THEN [save_param(r, pos) EXCEPT !.env.cur_state = "parse_value"]
    ELSE r

lex_parse_equal(r, pos, t) ==
    IF g_ascii_isspace(t)
    THEN [r EXCEPT !.env.cur_state = "spaces_after_eq"]
    ELSE IF t = "\""
    THEN [r EXCEPT !.env.cur_state = "parse_start_dquote"]
    ELSE IF t = "'"
    THEN [r EXCEPT !.env.cur_state = "parse_start_squote"]
    ELSE [save_param(r, pos) EXCEPT !.env.cur_state = "parse_value"]

\* parse_start_dquote and parse_start_squote; quote is the opening quote and
\* value_state the state that reads the value.
lex_parse_start_quote(r, pos, t, quote, value_state) ==
    IF t = quote
    THEN [r EXCEPT !.env.saved_p = NULL,
                   !.env.cur_state = "spaces_after_param"]
    ELSE [save_param(r, pos) EXCEPT !.env.cur_state = value_state]

\* parse_dqvalue and parse_sqvalue.
lex_parse_qvalue(r, pos, t, quote, end_state) ==
    IF t = quote
    THEN store_tag_component([r EXCEPT !.env.cur_state = end_state], pos)
    ELSE r

\* nxt is the byte at in + 1.
lex_parse_value(r, pos, t, nxt) ==
    IF t = "/" /\ nxt = ">"
    THEN store_tag_component(
             [r EXCEPT !.tag.flags = @ \cup {"FL_CLOSED"}], pos)
    ELSE IF g_ascii_isspace(t) \/ t = ">" \/ t = "\""
    THEN store_tag_component(
             [r EXCEPT !.env.cur_state = "spaces_after_param"], pos)
    ELSE r

lex_parse_end_quote(r, pos, t, nxt) ==
    IF g_ascii_isspace(t)
    THEN [r EXCEPT !.env.cur_state = "spaces_after_param"]
    ELSE IF t = "/" /\ nxt = ">"
    THEN [r EXCEPT !.tag.flags = @ \cup {"FL_CLOSED"}]
    ELSE [r EXCEPT !.env.cur_state = "parse_attr_name",
                   !.env.saved_p = pos]

lex_spaces_after_param(r, pos, t, nxt) ==
    IF ~g_ascii_isspace(t)
    THEN LET r1 == IF t = "/" /\ nxt = ">"
                   THEN [r EXCEPT !.tag.flags = @ \cup {"FL_CLOSED"}]
                   ELSE r
         IN  [r1 EXCEPT !.env.cur_state = "parse_attr_name",
                        !.env.saved_p = pos]
    ELSE r

\* One call of the lexer on the byte at pos: the tag, hc->flags and the
\* parser_env as the call leaves them.
parse_tag_content(tag, flags, pos, env, nxt) ==
    With([tag |-> tag, flags |-> flags, env |-> env], LAMBDA r :
    LET t == in_data[pos]
        cur_state == env.cur_state
    IN  CASE cur_state = "parse_start" -> lex_parse_start(r, pos, t)
          [] cur_state = "parse_name" -> lex_parse_name(r, pos, t)
          [] cur_state = "parse_attr_name" -> lex_parse_attr_name(r, pos, t)
          [] cur_state = "spaces_after_name" -> lex_spaces_after_name(r, pos, t)
          [] cur_state = "spaces_before_eq" -> lex_spaces_before_eq(r, pos, t)
          [] cur_state = "spaces_after_eq" -> lex_spaces_after_eq(r, pos, t)
          [] cur_state = "parse_equal" -> lex_parse_equal(r, pos, t)
          [] cur_state = "parse_start_dquote" ->
                lex_parse_start_quote(r, pos, t, "\"", "parse_dqvalue")
          [] cur_state = "parse_start_squote" ->
                lex_parse_start_quote(r, pos, t, "'", "parse_sqvalue")
          [] cur_state = "parse_dqvalue" ->
                lex_parse_qvalue(r, pos, t, "\"", "parse_end_dquote")
          [] cur_state = "parse_sqvalue" ->
                lex_parse_qvalue(r, pos, t, "'", "parse_end_squote")
          [] cur_state = "parse_value" -> lex_parse_value(r, pos, t, nxt)
          [] cur_state \in {"parse_end_dquote", "parse_end_squote"} ->
                lex_parse_end_quote(r, pos, t, nxt)
          [] cur_state = "spaces_after_param" ->
                lex_spaces_after_param(r, pos, t, nxt)
          [] cur_state = "ignore_bad_tag" -> r)

\* parse_tag_content takes parser_env by value: the struct of the caller
\* after a call that left the record r is the struct it passed.
env_after_call(env, r) == env

(* --------------------------- tree builder ----------------------------- *)

\* static const guint max_tags
max_tags == 8192

\* The guard with the limit itself let through.
tags_below_limit_inclusive(total) == total <= max_tags

\* hc->total_tags < max_tags: the guard of every g_node_new(tag).
tags_below_limit(total) == total < max_tags

\* hc->total_tags > max_tags: the test that sets TOO_MANY_TAGS.
tags_over_limit(total) == total > max_tags

\* g_node_new(data) followed by g_node_append(parent, nnode): the new node is
\* the last child of parent, and its index is the length of the result.
g_node_append(ns, parent, data) ==
    Append(ns, [data |-> data, parent |-> parent])

\* g_node_destroy of the node appended last.
g_node_destroy(ns) == SubSeq(ns, 1, Len(ns) - 1)

\* The nodes from node up to the root sentinel, node first.
RECURSIVE node_path(_, _)
node_path(ns, node) ==
    IF node = NULL THEN <<>>
    ELSE <<node>> \o node_path(ns, ns[node].parent)

\* The walk that closes the node it finds and leaves *cur_level alone.
check_balance_no_pop(r, nnode) ==
    LET arg == r.tags[r.nodes[nnode].data]
        up == node_path(r.nodes, r.nodes[nnode].parent)
        hits == {k \in 1..Len(up) :
                    /\ r.nodes[up[k]].data # NULL
                    /\ r.tags[r.nodes[up[k]].data].id = arg.id
                    /\ "FL_CLOSED" \notin r.tags[r.nodes[up[k]].data].flags}
    IN  IF "FL_CLOSING" \in arg.flags
        THEN IF hits # {}
             THEN LET cur == up[Min(hits)]
                  IN  [tags |-> [r.tags EXCEPT ![r.nodes[cur].data].flags =
                                                  @ \cup {"FL_CLOSED"}],
                       nodes |-> g_node_destroy(r.nodes),
                       cur_level |-> r.cur_level,
                       ret |-> TRUE]
             ELSE [tags |-> r.tags, nodes |-> r.nodes,
                   cur_level |-> r.cur_level, ret |-> FALSE]
        ELSE [tags |-> r.tags, nodes |-> r.nodes,
              cur_level |-> r.cur_level, ret |-> TRUE]

\* The walk that closes the farthest open node of the id, not the nearest.
check_balance_farthest(r, nnode) ==
    LET arg == r.tags[r.nodes[nnode].data]
        up == node_path(r.nodes, r.nodes[nnode].parent)
        hits == {k \in 1..Len(up) :
                    /\ r.nodes[up[k]].data # NULL
                    /\ r.tags[r.nodes[up[k]].data].id = arg.id
                    /\ "FL_CLOSED" \notin r.tags[r.nodes[up[k]].data].flags}
    IN  IF "FL_CLOSING" \in arg.flags
        THEN IF hits # {}
             THEN LET cur == up[Max(hits)]
                  IN  [tags |-> [r.tags EXCEPT ![r.nodes[cur].data].flags =
                                                  @ \cup {"FL_CLOSED"}],
                       nodes |-> g_node_destroy(r.nodes),
                       cur_level |-> r.nodes[cur].parent,
                       ret |-> TRUE]
             ELSE [tags |-> r.tags, nodes |-> r.nodes,
                   cur_level |-> r.cur_level, ret |-> FALSE]
        ELSE [tags |-> r.tags, nodes |-> r.nodes,
              cur_level |-> r.cur_level, ret |-> TRUE]

\* The walk that closes the node it finds and leaves the new node in the tree.
check_balance_keep(r, nnode) ==
    LET arg == r.tags[r.nodes[nnode].data]
        up == node_path(r.nodes, r.nodes[nnode].parent)
        hits == {k \in 1..Len(up) :
                    /\ r.nodes[up[k]].data # NULL
                    /\ r.tags[r.nodes[up[k]].data].id = arg.id
                    /\ "FL_CLOSED" \notin r.tags[r.nodes[up[k]].data].flags}
    IN  IF "FL_CLOSING" \in arg.flags
        THEN IF hits # {}
             THEN LET cur == up[Min(hits)]
                  IN  [tags |-> [r.tags EXCEPT ![r.nodes[cur].data].flags =
                                                  @ \cup {"FL_CLOSED"}],
                       nodes |-> r.nodes,
                       cur_level |-> r.nodes[cur].parent,
                       ret |-> TRUE]
             ELSE [tags |-> r.tags, nodes |-> r.nodes,
                   cur_level |-> r.cur_level, ret |-> FALSE]
        ELSE [tags |-> r.tags, nodes |-> r.nodes,
              cur_level |-> r.cur_level, ret |-> TRUE]

\* r is [tags, nodes, cur_level]; nnode (the last node of r.nodes) holds the
\* tag that was just appended.  The result adds ret, the return value.
rspamd_html_check_balance(r, nnode) ==
    LET arg == r.tags[r.nodes[nnode].data]
        up == node_path(r.nodes, r.nodes[nnode].parent)
        hits == {k \in 1..Len(up) :
                    /\ r.nodes[up[k]].data # NULL
                    /\ r.tags[r.nodes[up[k]].data].id = arg.id
                    /\ "FL_CLOSED" \notin r.tags[r.nodes[up[k]].data].flags}
    IN  IF "FL_CLOSING" \in arg.flags
        THEN IF hits # {}
             THEN LET cur == up[Min(hits)]
                  IN  [tags |-> [r.tags EXCEPT ![r.nodes[cur].data].flags =
                                                  @ \cup {"FL_CLOSED"}],
                       nodes |-> g_node_destroy(r.nodes),
                       cur_level |-> r.nodes[cur].parent,
                       ret |-> TRUE]
             ELSE [tags |-> r.tags, nodes |-> r.nodes,
                   cur_level |-> r.cur_level, ret |-> FALSE]
        ELSE [tags |-> r.tags, nodes |-> r.nodes,
              cur_level |-> r.cur_level, ret |-> TRUE]

\* The state rspamd_html_process_tag reads and writes.
process_tag_state(balanced) ==
    [tags |-> tags, nodes |-> nodes, cur_level |-> cur_level,
     total_tags |-> total_tags, flags |-> hc_flags, balanced |-> balanced,
     ret |-> TRUE, limit_hit |-> FALSE]

\* hc->html_tags == NULL: make the root sentinel.
process_tag_root(r) ==
    IF r.nodes = <<>>
    THEN [r EXCEPT !.nodes = <<[data |-> NULL, parent |-> NULL]>>,
                   !.cur_level = 1]
    ELSE r

\* The closing branch that never sets UNBALANCED.
process_tag_closing_quiet(r, tag) ==
    IF r.cur_level = NULL
    THEN [r EXCEPT !.ret = FALSE]
    ELSE IF tags_below_limit(r.total_tags)
    THEN With(rspamd_html_check_balance(
                  [tags |-> r.tags,
                   nodes |-> g_node_append(r.nodes, r.cur_level, tag),
                   cur_level |-> r.cur_level], Len(r.nodes) + 1),
              LAMBDA b :
                  [r EXCEPT !.tags = b.tags,
                            !.nodes = b.nodes,
                            !.cur_level = b.cur_level,
                            !.balanced = b.ret,
                            !.total_tags = @ + 1])
    ELSE [r EXCEPT !.limit_hit = TRUE]

\* A closing or self-closed block tag.
process_tag_closing(r, tag) ==
    IF r.cur_level = NULL
    THEN [r EXCEPT !.ret = FALSE]
    ELSE IF tags_below_limit(r.total_tags)
    THEN With(rspamd_html_check_balance(
                  [tags |-> r.tags,
                   nodes |-> g_node_append(r.nodes, r.cur_level, tag),
                   cur_level |-> r.cur_level], Len(r.nodes) + 1),
              LAMBDA b :
                  [r EXCEPT !.tags = b.tags,
                            !.nodes = b.nodes,
                            !.cur_level = b.cur_level,
                            !.flags = IF b.ret THEN @
                                      ELSE @ \cup {"UNBALANCED"},
                            !.balanced = b.ret,
                            !.total_tags = @ + 1])
    ELSE [r EXCEPT !.limit_hit = TRUE]

\* The opening branch that nests a repeated tag under the current open node.
process_tag_opening_nested(r, tag) ==
    With(r.nodes[r.cur_level].data, LAMBDA parent :
    With(IF parent # NULL /\ "FL_IGNORE" \in r.tags[parent].flags
         THEN [r EXCEPT !.tags[tag].flags = @ \cup {"FL_IGNORE"}]
         ELSE r, LAMBDA r1 :
        IF /\ parent # NULL
           /\ "FL_CLOSED" \notin r1.tags[tag].flags
           /\ "FL_BLOCK" \notin r1.tags[parent].flags
           /\ r1.tags[parent].id = r1.tags[tag].id
        THEN With([r1 EXCEPT !.flags = @ \cup {"UNBALANCED"},
                             !.balanced = FALSE,
                             !.tags[tag].parent = r1.tags[parent].parent],
                  LAMBDA r2 :
                      IF tags_below_limit(r2.total_tags)
                      THEN [r2 EXCEPT
                              !.nodes = g_node_append(
                                            @, r1.cur_level, tag),
                              !.cur_level = Len(r2.nodes) + 1,
                              !.total_tags = @ + 1]
                      ELSE [r2 EXCEPT !.limit_hit = TRUE])
        ELSE With(IF tags_below_limit(r1.total_tags)
                  THEN [r1 EXCEPT
                          !.nodes = g_node_append(@, r1.cur_level, tag),
                          !.cur_level =
                              IF "FL_CLOSED" \notin r1.tags[tag].flags
                              THEN Len(r1.nodes) + 1 ELSE @,
                          !.total_tags = @ + 1]
                  ELSE [r1 EXCEPT !.limit_hit = TRUE],
                  LAMBDA r2 :
                      IF r2.tags[tag].flags
                            \cap {"CM_HEAD", "CM_UNKNOWN", "FL_IGNORE"} # {}
                      THEN [r2 EXCEPT
                              !.tags[tag].flags = @ \cup {"FL_IGNORE"},
                              !.ret = FALSE]
                      ELSE r2)))

\* An opening block tag.
process_tag_opening(r, tag) ==
    With(r.nodes[r.cur_level].data, LAMBDA parent :
    With(IF parent # NULL /\ "FL_IGNORE" \in r.tags[parent].flags
         THEN [r EXCEPT !.tags[tag].flags = @ \cup {"FL_IGNORE"}]
         ELSE r, LAMBDA r1 :
        IF /\ parent # NULL
           /\ "FL_CLOSED" \notin r1.tags[tag].flags
           /\ "FL_BLOCK" \notin r1.tags[parent].flags
           /\ r1.tags[parent].id = r1.tags[tag].id
        THEN With([r1 EXCEPT !.flags = @ \cup {"UNBALANCED"},
                             !.balanced = FALSE,
                             !.tags[tag].parent = r1.tags[parent].parent],
                  LAMBDA r2 :
                      IF tags_below_limit(r2.total_tags)
                      THEN [r2 EXCEPT
                              !.nodes = g_node_append(
                                            @, r1.tags[parent].parent, tag),
                              !.cur_level = Len(r2.nodes) + 1,
                              !.total_tags = @ + 1]
                      ELSE [r2 EXCEPT !.limit_hit = TRUE])
        ELSE With(IF tags_below_limit(r1.total_tags)
                  THEN [r1 EXCEPT
                          !.nodes = g_node_append(@, r1.cur_level, tag),
                          !.cur_level =
                              IF "FL_CLOSED" \notin r1.tags[tag].flags
                              THEN Len(r1.nodes) + 1 ELSE @,
                          !.total_tags = @ + 1]
                  ELSE [r1 EXCEPT !.limit_hit = TRUE],
                  LAMBDA r2 :
                      IF r2.tags[tag].flags
                            \cap {"CM_HEAD", "CM_UNKNOWN", "FL_IGNORE"} # {}
                      THEN [r2 EXCEPT
                              !.tags[tag].flags = @ \cup {"FL_IGNORE"},
                              !.ret = FALSE]
                      ELSE r2)))

\* The inline branch with no test of the limit before g_node_new.
process_tag_inline_unguarded(r, tag) ==
    IF r.nodes[r.cur_level].data # NULL
    THEN [r EXCEPT !.nodes = g_node_append(@, r.cur_level, tag),
                   !.total_tags = @ + 1]
    ELSE r

\* An inline or empty tag.
process_tag_inline(r, tag) ==
    With(r.nodes[r.cur_level].data, LAMBDA parent :
        IF parent # NULL
        THEN With(IF tags_below_limit(r.total_tags)
                  THEN [r EXCEPT
                          !.nodes = g_node_append(@, r.cur_level, tag),
                          !.total_tags = @ + 1]
                  ELSE [r EXCEPT !.limit_hit = TRUE],
                  LAMBDA r1 :
                      IF r.tags[parent].flags
                            \cap {"CM_HEAD", "CM_UNKNOWN", "FL_IGNORE"} # {}
                      THEN [r1 EXCEPT
                              !.tags[tag].flags = @ \cup {"FL_IGNORE"},
                              !.ret = FALSE]
                      ELSE r1)
        ELSE r)

\* The dispatch with no inline branch: every known tag is a block tag.
process_tag_known_all_block(r2, tag) ==
    IF r2.tags[tag].flags \cap {"FL_CLOSING", "FL_CLOSED"} # {}
    THEN process_tag_closing(r2, tag)
    ELSE process_tag_opening(r2, tag)

\* The whole call for the tag at index tag; balanced is the caller's value.
\* The result holds what the call leaves in tags, nodes, cur_level,
\* total_tags, hc->flags and balanced, its return value ret, and limit_hit:
\* whether a g_node_new was skipped because the limit was reached.
process_tag_known(r2, tag) ==
    IF r2.tags[tag].flags \cap {"CM_INLINE", "CM_EMPTY"} = {}
    THEN IF r2.tags[tag].flags \cap {"FL_CLOSING", "FL_CLOSED"} # {}
         THEN process_tag_closing(r2, tag)
         ELSE process_tag_opening(r2, tag)
    ELSE process_tag_inline(r2, tag)

process_tag_checked(r1, tag) ==
    IF r1.tags[tag].id = NoTagId
    THEN [r1 EXCEPT !.total_tags = @ + 1, !.ret = FALSE]
    ELSE With([r1 EXCEPT !.tags[tag].parent = r1.cur_level],
              LAMBDA r2 : process_tag_known(r2, tag))

process_tag_limit(r0) ==
    IF tags_over_limit(r0.total_tags)
    THEN [r0 EXCEPT !.flags = @ \cup {"TOO_MANY_TAGS"}]
    ELSE r0

rspamd_html_process_tag(tag, balanced) ==
    With(process_tag_root(process_tag_state(balanced)), LAMBDA r0 :
    With(process_tag_limit(r0), LAMBDA r1 :
         process_tag_checked(r1, tag)))

(* ------------------------------- URLs --------------------------------- *)

str_sep == <<":", "/", "/">>
str_http == <<"h", "t", "t", "p">>
str_https == <<"h", "t", "t", "p", "s">>
str_mailto == <<"m", "a", "i", "l", "t", "o", ":">>
str_tel == <<"t", "e", "l", ":">>
str_callto == <<"c", "a", "l", "l", "t", "o", ":">>
str_data == <<"d", "a", "t", "a", ":">>
str_cid == <<"c", "i", "d", ":">>

\* The first index of s that holds a byte of stops, Len(s) + 1 when none.
first_of(s, stops) ==
    LET hits == {i \in 1..Len(s) : s[i] \in stops}
    IN  IF hits = {} THEN Len(s) + 1 ELSE Min(hits)

no_url ==
    [rc |-> "URI_ERRNO_BAD_FORMAT", string |-> <<>>, protocol |-> "PROTOCOL_UNKNOWN",
     protocollen |-> 0, user |-> <<>>, host |-> <<>>, data |-> <<>>,
     query |-> <<>>, tld |-> <<>>, flags |-> {}, count |-> 0]

\* The URL parser: scheme "://" [user "@"] host ["/" data] ["?" query], or
\* "mailto:" user "@" host.  It accepts an empty host and a scheme it does
\* not know; the callers filter on hostlen and protocol.
url_protocol(scheme) ==
    CASE scheme = str_http -> "PROTOCOL_HTTP"
      [] scheme = str_https -> "PROTOCOL_HTTPS"
      [] scheme \o <<":">> = str_mailto -> "PROTOCOL_MAILTO"
      [] OTHER -> "PROTOCOL_UNKNOWN"

\* The bytes of host after its last dot, <<>> when it has none.
url_tld(host) ==
    LET dots == {i \in 1..Len(host) : host[i] = "."}
    IN  IF dots = {} THEN <<>> ELSE SubSeq(host, Max(dots) + 1, Len(host))

\* The url of the string s with the scheme s[1..k], the user and the host
\* on the two sides of authority[at], and the path and query of tail.
url_of_parts(s, k, authority, at, tail, q) ==
    [no_url EXCEPT
       !.rc = "URI_ERRNO_OK",
       !.string = s,
       !.protocol = url_protocol(SubSeq(s, 1, k)),
       !.protocollen = k,
       !.user = IF at <= Len(authority) THEN SubSeq(authority, 1, at - 1)
                ELSE <<>>,
       !.host = SubSeq(authority,
                       IF at <= Len(authority) THEN at + 1 ELSE 1,
                       Len(authority)),
       !.data = IF tail # <<>> /\ tail[1] = "/"
                THEN SubSeq(tail, 2, q - 1) ELSE <<>>,
       !.query = SubSeq(tail, q + 1, Len(tail)),
       !.tld = url_tld(SubSeq(authority,
                              IF at <= Len(authority) THEN at + 1 ELSE 1,
                              Len(authority)))]

url_of_authority(s, k, authority, tail) ==
    With(first_of(authority, {"@"}), LAMBDA at :
    With(first_of(tail, {"?"}), LAMBDA q :
         url_of_parts(s, k, authority, at, tail, q)))

url_of_rest(s, k, rest, host_end) ==
    With(SubSeq(rest, 1, host_end - 1), LAMBDA authority :
    With(SubSeq(rest, host_end, Len(rest)), LAMBDA tail :
         url_of_authority(s, k, authority, tail)))

url_of_mailto(s, rest, at) ==
    [no_url EXCEPT
       !.rc = "URI_ERRNO_OK",
       !.string = s,
       !.protocol = "PROTOCOL_MAILTO",
       !.protocollen = Len(str_mailto) - 1,
       !.user = SubSeq(rest, 1, at - 1),
       !.host = SubSeq(rest, at + 1, Len(rest)),
       !.tld = url_tld(SubSeq(rest, at + 1, Len(rest)))]

url_of_scheme(s, k) ==
    IF k >= 1
    THEN With(SubSeq(s, k + 4, Len(s)), LAMBDA rest :
         With(first_of(rest, {"/", "?"}), LAMBDA host_end :
              url_of_rest(s, k, rest, host_end)))
    ELSE IF MatchAt(s, str_mailto, 0)
    THEN With(SubSeq(s, Len(str_mailto) + 1, Len(s)), LAMBDA rest :
         With(first_of(rest, {"@"}), LAMBDA at :
              url_of_mailto(s, rest, at)))
    ELSE no_url

rspamd_url_parse(s) ==
    With(rspamd_substring_search(s, str_sep), LAMBDA k : url_of_scheme(s, k))

\* url->hostlen > 0 && !(url->protocol & PROTOCOL_UNKNOWN)
url_not_damaged(u) ==
    /\ u.rc = "URI_ERRNO_OK"
    /\ Len(u.host) > 0
    /\ u.protocol # "PROTOCOL_UNKNOWN"

\* Head and trailing spaces stripped from the slice.
RECURSIVE strip_head(_)
strip_head(v) ==
    IF v # <<>> /\ g_ascii_isspace(Head(v)) THEN strip_head(Tail(v)) ELSE v

RECURSIVE strip_tail(_)
strip_tail(v) ==
    IF v # <<>> /\ g_ascii_isspace(Last(v))
    THEN strip_tail(SubSeq(v, 1, Len(v) - 1)) ELSE v

\* The bytes one input byte becomes in the decoded buffer.
url_encode_byte(b) ==
    IF g_ascii_isspace(b) THEN <<>>
    ELSE IF ~g_ascii_isgraph(b) THEN <<"%", "0", "0">>
    ELSE <<b>>

\* url_prefix with no case for "@".
url_prefix_no_email(s) ==
    IF rspamd_substring_search(s, str_sep) # -1 THEN <<>>
    ELSE IF /\ Len(s) >= Len(str_mailto) + 1
            /\ \/ MatchAt(s, str_mailto, 0)
               \/ MatchAt(s, str_tel, 0)
               \/ MatchAt(s, str_callto, 0)
    THEN <<>>
    ELSE LET i == first_of(s, Byte \ (Lower \cup Upper \cup Digits))
         IN  IF i > Len(s) THEN <<>>
             ELSE IF i = 1 /\ Len(s) > 2 /\ s[1] = "/" /\ s[2] = "/"
             THEN str_http \o <<":">>
             ELSE IF s[i] = ":" /\ i # 1
             THEN <<>>
             ELSE IF i = 1
             THEN <<"none">>
             ELSE str_http \o str_sep

\* The prefix rspamd_html_process_url prepends to s: <<>> when none,
\* <<"none">> when the slice holds no valid data and NULL is returned.
url_prefix(s) ==
    IF rspamd_substring_search(s, str_sep) # -1 THEN <<>>
    ELSE IF /\ Len(s) >= Len(str_mailto) + 1
            /\ \/ MatchAt(s, str_mailto, 0)
               \/ MatchAt(s, str_tel, 0)
               \/ MatchAt(s, str_callto, 0)
    THEN <<>>
    ELSE LET i == first_of(s, Byte \ (Lower \cup Upper \cup Digits))
         IN  IF i > Len(s) THEN <<>>
             ELSE IF i = 1 /\ Len(s) > 2 /\ s[1] = "/" /\ s[2] = "/"
             THEN str_http \o <<":">>
             ELSE IF s[i] = "@"
             THEN str_mailto \o <<"/", "/">>
             ELSE IF s[i] = ":" /\ i # 1
             THEN <<>>
             ELSE IF i = 1
             THEN <<"none">>
             ELSE str_http \o str_sep

\* The url rspamd_html_process_url returns for the slice v: a parsed url
\* record, or no_url for NULL.
process_url_parsed(prefix, has_bad_chars, parsed_url) ==
    IF prefix = <<"none">> THEN no_url
    ELSE IF url_not_damaged(parsed_url)
    THEN IF prefix # <<>> /\ parsed_url.tld = <<>>
         THEN no_url
         ELSE [parsed_url EXCEPT !.flags =
                 (IF has_bad_chars THEN {"OBSCURED"} ELSE {})
                 \cup (IF prefix # <<>> THEN {"SCHEMALESS"} ELSE {})]
    ELSE no_url

process_url_decoded(s, prefix) ==
    With(\E i \in 1..Len(s) : ~g_ascii_isspace(s[i]) /\ ~g_ascii_isgraph(s[i]),
         LAMBDA has_bad_chars :
    With(rspamd_url_parse(
             prefix \o Concat([i \in 1..Len(s) |-> url_encode_byte(s[i])])),
         LAMBDA parsed_url :
             process_url_parsed(prefix, has_bad_chars, parsed_url)))

rspamd_html_process_url(v) ==
    With(strip_tail(strip_head(v)), LAMBDA s :
    With(url_prefix(s), LAMBDA prefix : process_url_decoded(s, prefix)))

\* The first component of type HREF with a value, 0 when the tag has none.
first_href(tag) ==
    LET hits == {i \in 1..Len(tag.parameters) :
                    /\ tag.parameters[i].type = "HREF"
                    /\ Len(tag.parameters[i].val) > 0}
    IN  IF hits = {} THEN 0 ELSE Min(hits)

\* The slice rspamd_html_process_url_tag hands to rspamd_html_process_url
\* for the href value v: v itself, or v joined to hc->base_url; <<"none">>
\* for a data: url under a base url.
href_with_base(v) ==
    IF base_url # NULL /\ Len(v) > 2
    THEN LET base == urls[base_url]
         IN  IF rspamd_substring_search(v, str_sep) = -1
             THEN IF Len(v) >= Len(str_data) + 1
                     /\ MatchAt(rspamd_str_lc_utf8(v), str_data, 0)
                  THEN <<"none">>
                  ELSE LET need_slash == base.data = <<>>
                           len == Len(v) + Len(base.string)
                                      + (IF need_slash THEN 1 ELSE 0)
                       IN  SubSeq(base.string
                                      \o (IF need_slash THEN <<"/">> ELSE <<>>)
                                      \o v, 1, len)
             ELSE IF v[1] = "/" /\ v[2] # "/"
             THEN LET len == Len(v) + Len(base.host) + base.protocollen + 3
                  IN  SubSeq(SubSeq(base.string, 1, base.protocollen)
                                 \o str_sep \o base.host \o <<"/">> \o v,
                             1, len)
             ELSE v
    ELSE v

\* The url rspamd_html_process_url_tag returns for the tag: no_url for NULL.
process_url_tag_start(start) ==
    IF start = <<"none">> THEN no_url ELSE rspamd_html_process_url(start)

rspamd_html_process_url_tag(tag) ==
    With(first_href(tag), LAMBDA i :
        IF i = 0 THEN no_url
        ELSE With(href_with_base(tag.parameters[i].val),
                  LAMBDA start : process_url_tag_start(start)))

\* The url of url_set that is the same url as u, 0 when there is none.
url_set_find(set, all, u) ==
    LET hits == {e \in set : all[e].string = u.string}
    IN  IF hits = {} THEN 0 ELSE CHOOSE e \in hits : TRUE

\* The urls the URL finder reports in a query string: what the parser
\* accepts.
rspamd_url_find_multiple(query) ==
    With(rspamd_url_parse(query),
         LAMBDA found : IF found.rc = "URI_ERRNO_OK" THEN <<found>> ELSE <<>>)

\* r is [urls, url_set, part_urls].  The callback for one url found in the
\* query of an href.
rspamd_html_url_query_callback(r, found) ==
    IF found.protocol = "PROTOCOL_MAILTO" /\ Len(found.user) = 0
    THEN r
    ELSE With(url_set_find(r.url_set, r.urls, found),
              LAMBDA old :
                  IF old = 0
                  THEN [urls |-> Append(r.urls, [found EXCEPT
                                            !.flags = @ \cup {"QUERY"}]),
                        url_set |-> r.url_set \cup {Len(r.urls) + 1},
                        part_urls |-> Append(r.part_urls, Len(r.urls) + 1)]
                  ELSE [r EXCEPT !.urls[old].count = @ + 1])

RECURSIVE query_callbacks(_, _)
query_callbacks(r, found) ==
    IF found = <<>> THEN r
    ELSE With(rspamd_html_url_query_callback(r, Head(found)),
              LAMBDA r1 : query_callbacks(r1, Tail(found)))

\* rspamd_process_html_url for the url at index u, newly put in the set.
rspamd_process_html_url(r, u) ==
    With(IF Len(r.urls[u].query) > 0
         THEN With(rspamd_url_find_multiple(r.urls[u].query),
                   LAMBDA found : query_callbacks(r, found))
         ELSE r,
         LAMBDA r1 : [r1 EXCEPT !.part_urls = Append(@, u)])

(* ------------------------------ numbers ------------------------------- *)

HexDigits == <<"0", "1", "2", "3", "4", "5", "6", "7", "8", "9",
               "a", "b", "c", "d", "e", "f">>

\* The value of a hexadecimal digit, -1 for any other byte.
hex_value(t) ==
    LET hits == {i \in 1..Len(HexDigits) : HexDigits[i] = g_ascii_tolower(t)}
    IN  IF hits = {} THEN -1 ELSE Min(hits) - 1

g_ascii_isdigit(t) == hex_value(t) \in 0..9

\* strtoul(s, NULL, base): the number the leading digits of s spell.
RECURSIVE strtoul(_, _, _)
strtoul(s, base, acc) ==
    IF s = <<>> \/ hex_value(Head(s)) \notin 0..(base - 1) THEN acc
    ELSE strtoul(Tail(s), base, acc * base + hex_value(Head(s)))

\* The number of leading bytes of s that are decimal digits.
digits_prefix(s) ==
    LET hits == {i \in 1..Len(s) : ~g_ascii_isdigit(s[i])}
    IN  IF hits = {} THEN Len(s) ELSE Min(hits) - 1

\* strtod(s, &err) on an unsigned decimal number: the value in thousandths
\* and the bytes left over.
strtod_parts(s, n, rest, frac) ==
    [val |-> strtoul(SubSeq(s, 1, n), 10, 0) * 1000
               + strtoul(SubSeq(frac \o <<"0", "0", "0">>, 1, 3), 10, 0),
     err |-> IF frac = <<>> THEN rest
             ELSE SubSeq(rest, Len(frac) + 2, Len(rest))]

strtod_rest(s, n, rest) ==
    With(IF rest # <<>> /\ Head(rest) = "."
         THEN SubSeq(rest, 2, 1 + digits_prefix(Tail(rest)))
         ELSE <<>>,
         LAMBDA frac : strtod_parts(s, n, rest, frac))

strtod(s) ==
    With(digits_prefix(s), LAMBDA n :
    With(SubSeq(s, n + 1, Len(s)), LAMBDA rest : strtod_rest(s, n, rest)))

(* ------------------------------ blocks -------------------------------- *)

\* memset(cl, 0, sizeof(*cl))
zero_color == [valid |-> FALSE, r |-> 0, g |-> 0, b |-> 0, alpha |-> 0]

\* cl->d.val = val followed by cl->d.comp.alpha = alpha
color_of_number(val, alpha, valid) ==
    [valid |-> valid, r |-> (val \div 65536) % 256,
     g |-> (val \div 256) % 256, b |-> val % 256, alpha |-> alpha]

\* css_value::maybe_color_from_string: the named colours.
maybe_color_from_string(line) ==
    IF line = <<"r", "e", "d">> THEN {16711680} ELSE {}

\* The rgb(x,x,x) and rgba(x,x,x,x) scanner of rspamd_html_process_color.
\* st is [p, c, state, next_state, r, g, b, opacity, valid, stop].
rgb_scan_step(line, st, t, num, stopped) ==
    CASE st.state = "obrace" ->
           IF t = "("
           THEN [st EXCEPT !.p = @ + 1, !.state = "skip_spaces",
                           !.next_state = "num1"]
           ELSE IF g_ascii_isspace(t)
           THEN [st EXCEPT !.state = "skip_spaces", !.next_state = "obrace"]
           ELSE stopped
      [] st.state = "num1" ->
           IF t = ","
           THEN [st EXCEPT !.p = @ + 1, !.state = "skip_spaces",
                           !.next_state = "num2", !.r = num]
           ELSE IF ~g_ascii_isdigit(t) THEN stopped
           ELSE [st EXCEPT !.p = @ + 1]
      [] st.state = "num2" ->
           IF t = ","
           THEN [st EXCEPT !.p = @ + 1, !.state = "skip_spaces",
                           !.next_state = "num3", !.g = num]
           ELSE IF ~g_ascii_isdigit(t) THEN stopped
           ELSE [st EXCEPT !.p = @ + 1]
      [] st.state = "num3" ->
           IF t = ","
           THEN [st EXCEPT !.p = @ + 1, !.state = "skip_spaces",
                           !.next_state = "num4", !.b = num, !.valid = TRUE]
           ELSE IF t = ")"
           THEN [stopped EXCEPT !.b = num, !.valid = TRUE]
           ELSE IF ~g_ascii_isdigit(t) THEN stopped
           ELSE [st EXCEPT !.p = @ + 1]
      [] st.state = "num4" ->
           IF t \in {",", ")"}
           THEN [stopped EXCEPT !.opacity = num, !.valid = TRUE]
           ELSE IF ~g_ascii_isdigit(t) THEN stopped
           ELSE [st EXCEPT !.p = @ + 1]
      [] st.state = "skip_spaces" ->
           IF ~g_ascii_isspace(t)
           THEN [st EXCEPT !.c = st.p, !.state = st.next_state]
           ELSE [st EXCEPT !.p = @ + 1]

RECURSIVE rgb_scan(_, _)
rgb_scan(line, st) ==
    IF st.stop \/ st.p > Len(line) THEN st
    ELSE With(strtoul(Slice(line, st.c, st.p), 10, 0), LAMBDA num :
         With([st EXCEPT !.stop = TRUE], LAMBDA stopped :
         With(rgb_scan_step(line, st, line[st.p], num, stopped),
              LAMBDA st1 : rgb_scan(line, st1))))

\* The colour rspamd_html_process_color leaves in *cl for the value line.
rspamd_html_process_color(line) ==
    IF line[1] = "#"
    THEN color_of_number(strtoul(SubSeq(line, 2, Min({7, Len(line)})), 16, 0),
                         255, TRUE)
    ELSE IF Len(line) > 4
            /\ rspamd_str_lc_utf8(SubSeq(line, 1, 3)) = <<"r", "g", "b">>
    THEN With(IF line[4] = "a" THEN 5 ELSE 4, LAMBDA from :
         With(rgb_scan(line,
                  [p |-> from, c |-> from, state |-> "skip_spaces",
                   next_state |-> "obrace", r |-> 0, g |-> 0, b |-> 0,
                   opacity |-> 255, valid |-> FALSE, stop |-> FALSE]),
              LAMBDA st :
                  IF st.valid
                  THEN [valid |-> TRUE, r |-> st.r % 256, g |-> st.g % 256,
                        b |-> st.b % 256, alpha |-> st.opacity % 256]
                  ELSE zero_color))
    ELSE With(maybe_color_from_string(line), LAMBDA named :
             IF named = {} THEN zero_color
             ELSE color_of_number(CHOOSE v \in named : TRUE, 255, FALSE))

\* The factor, as a fraction num / den, that rspamd_html_process_css_size
\* applies for the suffix; <<>> when it returns FALSE.
css_size_factor(suffix) ==
    LET is(str) == Len(suffix) >= Len(str) /\ MatchAt(suffix, str, 0)
    IN  IF Len(suffix) >= 2
        THEN CASE is(<<"p", "x">>) -> <<1, 1>>
               [] is(<<"e", "m">>) -> <<16, 1>>
               [] is(<<"r", "e", "m">>) -> <<16, 1>>
               [] is(<<"e", "x">>) -> <<8, 1>>
               [] is(<<"v", "w">>) -> <<8, 1>>
               [] is(<<"v", "h">>) -> <<6, 1>>
               [] is(<<"v", "m", "a", "x">>) -> <<8, 1>>
               [] is(<<"v", "m", "i", "n">>) -> <<6, 1>>
               [] is(<<"p", "t">>) -> <<96, 72>>
               [] is(<<"c", "m">>) -> <<9600, 254>>
               [] is(<<"m", "m">>) -> <<960, 254>>
               [] is(<<"i", "n">>) -> <<96, 1>>
               [] is(<<"p", "c">>) -> <<96, 6>>
               [] OTHER -> <<>>
        ELSE IF suffix # <<>> /\ suffix[1] = "%" THEN <<16, 100>>
        ELSE <<>>

\* The font size, in pixels, rspamd_html_process_font_size stores for the
\* value line.  Sizes are kept in thousandths until the final conversion.
font_size_clamped(sz) == (IF sz > 32000 THEN 32000 ELSE sz) \div 1000

font_size_failsafe(sz, is_css) ==
    IF is_css
    THEN (IF sz < 1000 THEN 0 ELSE 16000)
    ELSE (IF sz >= 1000 THEN sz * 16 ELSE 16000)

font_size_scaled(sz, factor, is_css) ==
    font_size_clamped(
        IF factor = <<>> THEN font_size_failsafe(sz, is_css)
        ELSE ((sz * factor[1]) \div (factor[2] * 1000)) * 1000)

font_size_number(num, is_css) ==
    With(IF num.err # <<>>
         THEN css_size_factor(rspamd_str_lc_utf8(strip_head(num.err)))
         ELSE <<>>,
         LAMBDA factor : font_size_scaled(num.val, factor, is_css))

rspamd_html_process_font_size(line, is_css) ==
    With(strip_head(line), LAMBDA v :
        IF v # <<>> /\ g_ascii_isdigit(v[1])
        THEN With(strtod(v), LAMBDA num : font_size_number(num, is_css))
        ELSE font_size_scaled(IF is_css THEN 16000 ELSE 1000, <<>>, is_css))

\* bl after one "key: value" declaration of a style attribute.
style_declaration_lc(bl, k, value, lc) ==
    CASE k \in {<<"c", "o", "l", "o", "r">>,
                <<"f", "o", "n", "t", "-", "c", "o", "l", "o", "r">>} ->
           [bl EXCEPT !.font_color = rspamd_html_process_color(value)]
      [] k \in {<<"b", "a", "c", "k", "g", "r", "o", "u", "n", "d">>,
                <<"b", "a", "c", "k", "g", "r", "o", "u", "n", "d", "-",
                  "c", "o", "l", "o", "r">>} ->
           [bl EXCEPT !.background_color = rspamd_html_process_color(value)]
      [] k = <<"d", "i", "s", "p", "l", "a", "y">> ->
           IF rspamd_substring_search(lc, <<"n", "o", "n", "e">>) # -1
           THEN [bl EXCEPT !.visible = FALSE] ELSE bl
      [] k = <<"f", "o", "n", "t", "-", "s", "i", "z", "e">> ->
           [bl EXCEPT !.font_size = rspamd_html_process_font_size(value, TRUE)]
      [] k = <<"o", "p", "a", "c", "i", "t", "y">> ->
           With(strtod(value).val, LAMBDA opacity :
               [bl EXCEPT !.font_color.alpha =
                   ((IF opacity > 1000 THEN 1000 ELSE opacity) * 255)
                       \div 1000])
      [] k = <<"v", "i", "s", "i", "b", "i", "l", "i", "t", "y">> ->
           IF rspamd_substring_search(lc, <<"h", "i", "d", "d", "e", "n">>) # -1
           THEN [bl EXCEPT !.visible = FALSE] ELSE bl
      [] OTHER -> bl

style_declaration(bl, key, value) ==
    With(rspamd_str_lc_utf8(key), LAMBDA k :
    With(rspamd_str_lc_utf8(value), LAMBDA lc :
         style_declaration_lc(bl, k, value, lc)))

\* The scanner of rspamd_html_process_style.  st is [p, c, state,
\* next_state, key, klen, bl]; key is the position of the key, 0 for NULL.
style_scan_step(style, st, at_end) ==
    CASE st.state = "read_key" ->
           IF at_end \/ style[st.p] = ":"
           THEN [st EXCEPT !.key = st.c, !.klen = st.p - st.c,
                           !.state = "skip_spaces",
                           !.next_state = "read_value", !.p = @ + 1]
           ELSE IF g_ascii_isspace(style[st.p])
           THEN [st EXCEPT !.key = st.c, !.klen = st.p - st.c,
                           !.state = "skip_spaces",
                           !.next_state = "read_colon", !.p = @ + 1]
           ELSE [st EXCEPT !.p = @ + 1]
      [] st.state = "read_colon" ->
           IF at_end \/ style[st.p] = ":"
           THEN [st EXCEPT !.state = "skip_spaces",
                           !.next_state = "read_value", !.p = @ + 1]
           ELSE [st EXCEPT !.p = @ + 1]
      [] st.state = "read_value" ->
           IF at_end \/ style[st.p] = ";"
           THEN [st EXCEPT
                   !.bl = IF st.key # NULL /\ st.klen > 0
                             /\ st.p - st.c > 0
                          THEN style_declaration(st.bl,
                                 SubSeq(style, st.key, st.key + st.klen - 1),
                                 Slice(style, st.c, st.p))
                          ELSE @,
                   !.key = NULL, !.klen = 0,
                   !.state = "skip_spaces",
                   !.next_state = "read_key", !.p = @ + 1]
           ELSE [st EXCEPT !.p = @ + 1]
      [] st.state = "skip_spaces" ->
           IF ~at_end /\ ~g_ascii_isspace(style[st.p])
           THEN [st EXCEPT !.c = st.p, !.state = st.next_state]
           ELSE [st EXCEPT !.p = @ + 1]

RECURSIVE style_scan(_, _)
style_scan(style, st) ==
    IF st.p > Len(style) + 1 THEN st.bl
    ELSE With(style_scan_step(style, st, st.p = Len(style) + 1),
              LAMBDA st1 : style_scan(style, st1))

rspamd_html_process_style(bl, style) ==
    style_scan(style, [p |-> 1, c |-> 1, state |-> "skip_spaces",
                       next_state |-> "read_key", key |-> NULL, klen |-> 0,
                       bl |-> bl])

\* rspamd_mempool_alloc0_type(pool, struct html_block) and the three
\* assignments that follow it.
new_html_block(tag) ==
    [tag |-> tag, visible |-> TRUE, font_size |-> -1,
     font_color |-> [zero_color EXCEPT !.alpha = 255],
     background_color |-> zero_color, style |-> <<>>, html_class |-> <<>>]

\* r is [bl, bgcolor]; one component of the tag.
block_component(r, comp, id) ==
    IF Len(comp.val) = 0 THEN r
    ELSE CASE comp.type = "COLOR" ->
                [r EXCEPT !.bl.font_color = rspamd_html_process_color(comp.val)]
           [] comp.type = "BGCOLOR" ->
                With(rspamd_html_process_color(comp.val), LAMBDA cl :
                    [bl |-> [r.bl EXCEPT !.background_color = cl],
                     bgcolor |-> IF id = "Tag_BODY" THEN cl ELSE r.bgcolor])
           [] comp.type = "STYLE" ->
                [r EXCEPT !.bl = rspamd_html_process_style(
                                     [r.bl EXCEPT !.style = comp.val],
                                     comp.val)]
           [] comp.type = "CLASS" ->
                [r EXCEPT !.bl.html_class = comp.val]
           [] comp.type = "SIZE" ->
                [r EXCEPT !.bl.font_size = 16]
           [] OTHER -> r

RECURSIVE block_components(_, _, _)
block_components(r, comps, id) ==
    IF comps = <<>> THEN r
    ELSE With(block_component(r, Head(comps), id),
              LAMBDA r1 : block_components(r1, Tail(comps), id))

\* The block rspamd_html_process_block_tag makes for the tag, and hc->bgcolor
\* after the call.
rspamd_html_process_block_tag(tag, tag_index, hc_bgcolor) ==
    block_components([bl |-> new_html_block(tag_index), bgcolor |-> hc_bgcolor],
                     tag.parameters, tag.id)

\* bl after rspamd_html_propagate_style, and whether it is pushed on the
\* queue of open blocks: has_parent tells whether the queue has a tail,
\* bl_parent is that tail.
rspamd_html_propagate_style(hc_bgcolor, tag, bl, has_parent, bl_parent) ==
    LET bg1 == IF has_parent /\ ~bl.background_color.valid
                  /\ bl_parent.background_color.valid
               THEN bl_parent.background_color ELSE bl.background_color
        fc1 == IF has_parent /\ ~bl.font_color.valid
                  /\ bl_parent.font_color.valid
               THEN bl_parent.font_color ELSE bl.font_color
        fs1 == IF has_parent /\ bl.font_size = -1 /\ bl_parent.font_size # -1
               THEN bl_parent.font_size ELSE bl.font_size
        push_block ==
            \/ has_parent /\ bl.background_color.valid
            \/ has_parent /\ bl.font_color.valid
            \/ has_parent /\ bl.font_size # -1
            \/ fc1.valid
            \/ bg1.valid
            \/ fs1 # -1
    IN  [bl |-> [bl EXCEPT
                   !.font_color =
                       IF ~fc1.valid
                       THEN [fc1 EXCEPT !.r = 0, !.g = 0, !.b = 0,
                                        !.valid = TRUE]
                       ELSE fc1,
                   !.background_color =
                       IF ~bg1.valid THEN hc_bgcolor ELSE bg1,
                   !.font_size = IF fs1 = -1 THEN 16 ELSE fs1],
         push |-> push_block /\ "FL_CLOSED" \notin tag.flags]

\* bl->font_size < 3 || bl->font_color.d.comp.alpha < 10
block_too_small(bl) == bl.font_size < 3 \/ bl.font_color.alpha < 10

(* ------------------------------ images -------------------------------- *)

\* The two optional spaces and the alt text that the img handler appends.
append_alt(d, alt) ==
    LET d1 == IF Len(d) > 0 /\ ~g_ascii_isspace(Last(d))
              THEN Append(d, " ") ELSE d
        d2 == d1 \o alt
    IN  IF ~g_ascii_isspace(Last(d2)) THEN Append(d2, " ") ELSE d2

\* r is [urls, url_set, part_urls, dest, flags, img]; the external image
\* url of the src value.
img_external_add(r, u, existing) ==
    IF u.rc # "URI_ERRNO_OK" THEN r
    ELSE IF existing # 0
    THEN [r EXCEPT !.urls[existing].flags = @ \cup u.flags,
                   !.urls[existing].count = @ + 1,
                   !.img.url = existing]
    ELSE [r EXCEPT !.urls = Append(@, u),
                   !.url_set = @ \cup {Len(r.urls) + 1},
                   !.part_urls = Append(@, Len(r.urls) + 1),
                   !.img.url = Len(r.urls) + 1]

img_external_url(r, src) ==
    With(rspamd_html_process_url(src), LAMBDA found :
    With(url_set_find(r.url_set, r.urls, found), LAMBDA existing :
         img_external_add(r, [found EXCEPT !.flags = @ \cup {"IMAGE"}],
                          existing)))

\* One component of an img tag; with_dest is FALSE when dest is NULL.
img_component(r, comp, with_dest) ==
    IF comp.type = "HREF" /\ Len(comp.val) > 0
    THEN IF Len(comp.val) > Len(str_cid) /\ MatchAt(comp.val, str_cid, 0)
         THEN [r EXCEPT !.img.src = comp.val,
                        !.img.flags = @ \cup {"IMAGE_EMBEDDED"}]
         ELSE IF Len(comp.val) > Len(str_data)
                 /\ MatchAt(comp.val, str_data, 0)
         THEN [r EXCEPT
                 !.img.src = comp.val,
                 !.img.flags = @ \cup {"IMAGE_EMBEDDED", "IMAGE_DATA"},
                 !.flags = @ \cup {"HAS_DATA_URLS"}]
         ELSE With([r EXCEPT !.img.src = comp.val,
                             !.img.flags = @ \cup {"IMAGE_EXTERNAL"}],
                   LAMBDA r1 : img_external_url(r1, comp.val))
    ELSE IF comp.type = "HEIGHT"
    THEN [r EXCEPT !.img.height = strtoul(comp.val, 10, 0)]
    ELSE IF comp.type = "WIDTH"
    THEN [r EXCEPT !.img.width = strtoul(comp.val, 10, 0)]
    ELSE IF comp.type = "ALT" /\ Len(comp.val) > 0 /\ with_dest
    THEN [r EXCEPT !.dest = append_alt(@, comp.val)]
    ELSE r

RECURSIVE img_components(_, _, _)
img_components(r, comps, with_dest) ==
    IF comps = <<>> THEN r
    ELSE With(img_component(r, Head(comps), with_dest),
              LAMBDA r1 : img_components(r1, Tail(comps), with_dest))

\* r is [urls, url_set, part_urls, dest, flags]; the result adds img, the
\* html_image appended to hc->images.
rspamd_html_process_img_tag(r, tag, tag_index, with_dest) ==
    img_components(
        [urls |-> r.urls, url_set |-> r.url_set, part_urls |-> r.part_urls,
         dest |-> r.dest, flags |-> r.flags,
         img |-> [tag |-> tag_index, src |-> <<>>, url |-> NULL,
                  flags |-> {}, height |-> 0, width |-> 0]],
        tag.parameters, with_dest)

\* Whether rspamd_html_process_link_tag hands the tag to the img handler: a
\* rel component that reads "icon".
link_is_icon(tag) ==
    \E i \in 1..Len(tag.parameters) :
        /\ tag.parameters[i].type = "REL"
        /\ rspamd_str_lc_utf8(tag.parameters[i].val) = <<"i", "c", "o", "n">>

(* -------------------------- displayed urls ---------------------------- *)

\* The phishing checker: the url the visible text spells, when it spells
\* one, and whether it differs from the url of the href.
rspamd_html_url_is_phished(href_url, text) ==
    With(rspamd_html_process_url(text),
         LAMBDA shown :
             [url_found |-> shown.rc = "URI_ERRNO_OK",
              displayed_url |-> IF shown.rc = "URI_ERRNO_OK"
                                   /\ shown.host # href_url.host
                                THEN shown ELSE no_url])

\* The displayed url goes to the url set, or the url of the set that equals
\* it (turl, 0 when none) is counted once more.
displayed_url_add(r1, displayed_url, turl) ==
    IF displayed_url.rc # "URI_ERRNO_OK" THEN r1
    ELSE IF turl = 0
    THEN [r1 EXCEPT !.urls = Append(@, [displayed_url EXCEPT !.count = 1]),
                    !.url_set = @ \cup {Len(r1.urls) + 1}]
    ELSE [r1 EXCEPT
            !.urls[turl].flags =
                IF "FROM_TEXT" \in @
                THEN (@ \ {"FROM_TEXT"}) \cup {"HTML_DISPLAYED"}
                ELSE @,
            !.urls[turl].count = @ + 1]

displayed_url_found(r, d, offset, u, ph) ==
    With(IF ph.url_found
         THEN [r EXCEPT
                 !.urls[u].flags = @ \cup {"DISPLAY_URL"},
                 !.exceptions = <<[pos |-> offset,
                                   len |-> Len(d) - offset,
                                   type |-> "RSPAMD_EXCEPTION_URL",
                                   ptr |-> u]>> \o @]
         ELSE r, LAMBDA r1 :
    With(url_set_find(r.url_set, r.urls, ph.displayed_url), LAMBDA turl :
         displayed_url_add(r1, ph.displayed_url, turl)))

\* r is [urls, url_set, exceptions]; the call for the url at index u with
\* the text dest and the offset offset (a count of bytes, -1 for none).
rspamd_html_check_displayed_url(r, d, offset, u) ==
    IF offset < 0 THEN r
    ELSE With(rspamd_html_url_is_phished(
                  r.urls[u],
                  strip_tail(strip_head(SubSeq(d, offset + 1, Len(d))))),
              LAMBDA ph : displayed_url_found(r, d, offset, u, ph))

(* ------------------------- outer tokenizer ---------------------------- *)

\* The bytes a read at position i can return: the byte of the buffer, or
\* any byte when i lies past the end of the buffer.
Peek(i) == IF i <= Len(in_data) THEN {in_data[i]} ELSE Byte

\* while (p < end): the loop runs another iteration.
Running == ~parsed /\ p <= Len(in_data)

runVars == <<in_data, allow_css, given, consumed, run, first_run>>
treeVars == <<total_tags, nodes, bulk, cur_level, tags_seen>>
urlVars == <<urls, url_set, part_urls, base_url, url, href_offset, exceptions>>
blockVars == <<bgcolor, blocks, styles_blocks, images>>
textVars == <<c, need_decode, save_space, dest, content_tag>>
histVars == <<dropped, last_call>>

\* The iteration just taken moved p or did not.
Tick == stall' = IF p' > p THEN 0 ELSE stall + 1

\* The append that copies from the start of the input and not from c.
emit_text_from_start(d, ts, ct, from, to, decode) ==
    [dest |-> d \o Slice(in_data, 1, to), tags |-> ts]

\* g_byte_array_append(dest, c, p - c), decoded in place when need_decode,
\* with the bookkeeping of content_tag.
emit_text(d, ts, ct, from, to, decode) ==
    LET text == Slice(in_data, from, to)
        out == IF decode THEN decode_html_entitles_inplace(text) ELSE text
    IN  [dest |-> d \o out,
         tags |-> IF ct # NULL
                  THEN [ts EXCEPT
                          ![ct].content_offset =
                              IF ts[ct].content_length = 0 THEN Len(d) ELSE @,
                          ![ct].content_length = @ + Len(out)]
                  ELSE ts]

\* The bookkeeping of content_tag for n bytes appended to dest outside the
\* text of the tag; dlen is dest->len after the append.
content_tag_inserted(ts, ct, dlen, n) ==
    IF ct = NULL THEN ts
    ELSE IF ts[ct].content_length = 0
    THEN [ts EXCEPT ![ct].content_offset = dlen]
    ELSE [ts EXCEPT ![ct].content_length = @ + n]

\* "Append one space if needed"
append_space(d, ts, ct) ==
    IF Len(d) > 0 /\ ~g_ascii_isspace(Last(d))
    THEN [dest |-> Append(d, " "),
          tags |-> content_tag_inserted(ts, ct, Len(d) + 1, 1)]
    ELSE [dest |-> d, tags |-> ts]

\* append_newline with no test of the last byte.
append_newline_each(d, ts, ct) ==
    IF Len(d) > 0
    THEN [dest |-> d \o <<"\r", "\n">>,
          tags |-> content_tag_inserted(ts, ct, Len(d) + 2, 2)]
    ELSE [dest |-> d, tags |-> ts]

\* "Handle newlines"
append_newline(d, ts, ct) ==
    IF Len(d) > 0 /\ Last(d) # "\n"
    THEN [dest |-> d \o <<"\r", "\n">>,
          tags |-> content_tag_inserted(ts, ct, Len(d) + 2, 2)]
    ELSE [dest |-> d, tags |-> ts]

parse_start ==
    /\ Running /\ state = "parse_start"
    /\ IF in_data[p] = "<"
       THEN state' = "tag_begin" /\ hc_flags' = hc_flags
       ELSE /\ state' = "content_write"
            /\ hc_flags' = hc_flags \cup {"BAD_START"}
    /\ p' = p /\ Tick
    /\ UNCHANGED <<runVars, treeVars, urlVars, blockVars, textVars, histVars,
                   closing, obrace, ebrace, parser_env, cur_tag, tags,
                   css_style, parsed>>

tag_begin ==
    /\ Running /\ state = "tag_begin"
    /\ LET t == in_data[p]
       IN  CASE t = "<" ->
                  /\ p' = p + 1 /\ closing' = FALSE
                  /\ UNCHANGED <<state, hc_flags, parser_env, cur_tag, tags>>
             [] t = "!" ->
                  /\ p' = p + 1 /\ state' = "sgml_tag"
                  /\ UNCHANGED <<closing, hc_flags, parser_env, cur_tag, tags>>
             [] t = "?" ->
                  /\ p' = p + 1 /\ state' = "xml_tag"
                  /\ hc_flags' = hc_flags \cup {"XML"}
                  /\ UNCHANGED <<closing, parser_env, cur_tag, tags>>
             [] t = "/" ->
                  /\ p' = p + 1 /\ closing' = TRUE
                  /\ UNCHANGED <<state, hc_flags, parser_env, cur_tag, tags>>
             [] t = ">" ->
                  /\ p' = p /\ state' = "tag_end"
                  /\ hc_flags' = hc_flags \cup {"BAD_ELEMENTS"}
                  /\ UNCHANGED <<closing, parser_env, cur_tag, tags>>
             [] OTHER ->
                  /\ p' = p /\ state' = "tag_content"
                  /\ parser_env' = parser_env_reset
                  /\ tags' = Append(tags, new_html_tag)
                  /\ cur_tag' = Len(tags) + 1
                  /\ UNCHANGED <<closing, hc_flags>>
    /\ Tick
    /\ UNCHANGED <<runVars, treeVars, urlVars, blockVars, textVars, histVars,
                   obrace, ebrace, css_style, parsed>>

sgml_tag ==
    /\ Running /\ state = "sgml_tag"
    /\ LET t == in_data[p]
       IN  CASE t = "[" ->
                  /\ p' = p + 1 /\ state' = "compound_tag"
                  /\ obrace' = 1 /\ ebrace' = 0
             [] t = "-" ->
                  /\ p' = p + 1 /\ state' = "comment_tag"
                  /\ UNCHANGED <<obrace, ebrace>>
             [] OTHER ->
                  /\ p' = p /\ state' = "sgml_content"
                  /\ UNCHANGED <<obrace, ebrace>>
    /\ Tick
    /\ UNCHANGED <<runVars, treeVars, urlVars, blockVars, textVars, histVars,
                   closing, hc_flags, parser_env, cur_tag, tags, css_style,
                   parsed>>

xml_tag ==
    /\ Running /\ state = "xml_tag"
    /\ LET t == in_data[p]
       IN  CASE t = "?" ->
                  /\ p' = p + 1 /\ state' = "xml_tag_end"
                  /\ hc_flags' = hc_flags
             [] t = ">" ->
                  /\ p' = p /\ state' = "tag_end"
                  /\ hc_flags' = hc_flags \cup {"BAD_ELEMENTS"}
             [] OTHER ->
                  /\ p' = p + 1 /\ UNCHANGED <<state, hc_flags>>
    /\ Tick
    /\ UNCHANGED <<runVars, treeVars, urlVars, blockVars, textVars, histVars,
                   closing, obrace, ebrace, parser_env, cur_tag, tags,
                   css_style, parsed>>

\* xml_tag_end that sets no flag.
xml_tag_end_quiet ==
    /\ Running /\ state = "xml_tag_end"
    /\ IF in_data[p] = ">"
       THEN p' = p /\ state' = "tag_end" /\ hc_flags' = hc_flags
       ELSE /\ p' = p + 1 /\ state' = state
            /\ hc_flags' = hc_flags
    /\ Tick
    /\ UNCHANGED <<runVars, treeVars, urlVars, blockVars, textVars, histVars,
                   closing, obrace, ebrace, parser_env, cur_tag, tags,
                   css_style, parsed>>

xml_tag_end ==
    /\ Running /\ state = "xml_tag_end"
    /\ IF in_data[p] = ">"
       THEN p' = p /\ state' = "tag_end" /\ hc_flags' = hc_flags
       ELSE /\ p' = p + 1 /\ state' = state
            /\ hc_flags' = hc_flags \cup {"BAD_ELEMENTS"}
    /\ Tick
    /\ UNCHANGED <<runVars, treeVars, urlVars, blockVars, textVars, histVars,
                   closing, obrace, ebrace, parser_env, cur_tag, tags,
                   css_style, parsed>>

compound_tag ==
    /\ Running /\ state = "compound_tag"
    /\ LET t == in_data[p]
       IN  CASE t = "[" ->
                  /\ obrace' = obrace + 1 /\ p' = p + 1
                  /\ UNCHANGED <<ebrace, state>>
             [] t = "]" ->
                  /\ ebrace' = ebrace + 1 /\ p' = p + 1
                  /\ UNCHANGED <<obrace, state>>
             [] t = ">" /\ obrace = ebrace ->
                  /\ p' = p /\ state' = "tag_end"
                  /\ UNCHANGED <<obrace, ebrace>>
             [] OTHER ->
                  /\ p' = p + 1 /\ UNCHANGED <<obrace, ebrace, state>>
    /\ Tick
    /\ UNCHANGED <<runVars, treeVars, urlVars, blockVars, textVars, histVars,
                   closing, hc_flags, parser_env, cur_tag, tags, css_style,
                   parsed>>

\* After p++ the code reads p[0] with no test against end: first is that
\* byte, and second is p[1], read only when p + 1 < end.
comment_tag ==
    /\ Running /\ state = "comment_tag"
    /\ IF in_data[p] # "-"
       THEN /\ hc_flags' = hc_flags \cup {"BAD_ELEMENTS"}
            /\ state' = "tag_end"
            /\ p' = p
            /\ ebrace' = ebrace
       ELSE /\ ebrace' = 0
            /\ \E first \in Peek(p + 1) :
                 IF first = "-" /\ p + 2 <= Len(in_data)
                    /\ in_data[p + 2] = ">"
                 THEN /\ hc_flags' = hc_flags \cup {"BAD_ELEMENTS"}
                      /\ p' = p + 2
                      /\ state' = "tag_end"
                 ELSE IF first = ">"
                 THEN /\ hc_flags' = hc_flags \cup {"BAD_ELEMENTS"}
                      /\ p' = p + 1
                      /\ state' = "tag_end"
                 ELSE /\ hc_flags' = hc_flags
                      /\ p' = p + 1
                      /\ state' = "comment_content"
    /\ Tick
    /\ UNCHANGED <<runVars, treeVars, urlVars, blockVars, textVars, histVars,
                   closing, obrace, parser_env, cur_tag, tags, css_style,
                   parsed>>

\* comment_content with the count of '-' kept over other bytes.
comment_content_counting ==
    /\ Running /\ state = "comment_content"
    /\ LET t == in_data[p]
       IN  CASE t = "-" ->
                  /\ ebrace' = ebrace + 1 /\ p' = p + 1 /\ state' = state
             [] t = ">" /\ ebrace >= 2 ->
                  /\ p' = p /\ state' = "tag_end" /\ ebrace' = ebrace
             [] OTHER ->
                  /\ ebrace' = ebrace /\ p' = p + 1 /\ state' = state
    /\ Tick
    /\ UNCHANGED <<runVars, treeVars, urlVars, blockVars, textVars, histVars,
                   closing, obrace, hc_flags, parser_env, cur_tag, tags,
                   css_style, parsed>>

comment_content ==
    /\ Running /\ state = "comment_content"
    /\ LET t == in_data[p]
       IN  CASE t = "-" ->
                  /\ ebrace' = ebrace + 1 /\ p' = p + 1 /\ state' = state
             [] t = ">" /\ ebrace >= 2 ->
                  /\ p' = p /\ state' = "tag_end" /\ ebrace' = ebrace
             [] OTHER ->
                  /\ ebrace' = 0 /\ p' = p + 1 /\ state' = state
    /\ Tick
    /\ UNCHANGED <<runVars, treeVars, urlVars, blockVars, textVars, histVars,
                   closing, obrace, hc_flags, parser_env, cur_tag, tags,
                   css_style, parsed>>

\* content_ignore with the change of state at "<" left out.
content_ignore_stuck ==
    /\ Running /\ state = "content_ignore"
    /\ p' = IF in_data[p] # "<" THEN p + 1 ELSE p
    /\ state' = state
    /\ Tick
    /\ UNCHANGED <<runVars, treeVars, urlVars, blockVars, textVars, histVars,
                   closing, obrace, ebrace, hc_flags, parser_env, cur_tag,
                   tags, css_style, parsed>>

content_ignore ==
    /\ Running /\ state = "content_ignore"
    /\ IF in_data[p] # "<"
       THEN p' = p + 1 /\ state' = state
       ELSE p' = p /\ state' = "tag_begin"
    /\ Tick
    /\ UNCHANGED <<runVars, treeVars, urlVars, blockVars, textVars, histVars,
                   closing, obrace, ebrace, hc_flags, parser_env, cur_tag,
                   tags, css_style, parsed>>

content_write ==
    /\ Running /\ state = "content_write"
    /\ LET t == in_data[p]
           out == IF p > c
                  THEN emit_text(dest, tags, content_tag, c, p, need_decode)
                  ELSE [dest |-> dest, tags |-> tags]
           sp == IF save_space
                 THEN append_space(dest, tags, content_tag)
                 ELSE [dest |-> dest, tags |-> tags]
       IN  CASE t = "&" ->
                  /\ need_decode' = TRUE
                  /\ p' = p + 1
                  /\ UNCHANGED <<save_space, dest, tags, c, state, content_tag>>
             [] t # "<" /\ g_ascii_isspace(t) ->
                  /\ save_space' = TRUE
                  /\ dest' = out.dest
                  /\ tags' = out.tags
                  /\ c' = p
                  /\ state' = "content_ignore_sp"
                  /\ p' = p + 1
                  /\ UNCHANGED <<need_decode, content_tag>>
             [] t = "<" ->
                  /\ dest' = out.dest
                  /\ tags' = out.tags
                  /\ content_tag' = NULL
                  /\ state' = "tag_begin"
                  /\ p' = p
                  /\ UNCHANGED <<need_decode, save_space, c>>
             [] OTHER ->
                  /\ dest' = sp.dest
                  /\ tags' = sp.tags
                  /\ save_space' = FALSE
                  /\ p' = p + 1
                  /\ UNCHANGED <<need_decode, c, state, content_tag>>
    /\ Tick
    /\ UNCHANGED <<runVars, treeVars, urlVars, blockVars, histVars, closing,
                   obrace, ebrace, hc_flags, parser_env, cur_tag, css_style,
                   parsed>>

\* The byte at p[end_style + 2] is read with no test against end.
content_style ==
    /\ Running /\ state = "content_style"
    /\ LET end_style == rspamd_substring_search(
                            SubSeq(in_data, p, Len(in_data)), <<"<", "/">>)
       IN  IF end_style = -1
           THEN state' = "content_ignore" /\ p' = p /\ css_style' = css_style
           ELSE \E after \in Peek(p + end_style + 2) :
                  IF g_ascii_tolower(after) # "s"
                  THEN /\ state' = "content_ignore" /\ p' = p
                       /\ css_style' = css_style
                  ELSE /\ css_style' =
                            IF allow_css
                            THEN Append(css_style,
                                        SubSeq(in_data, p, p + end_style - 1))
                            ELSE css_style
                       /\ p' = p + end_style
                       /\ state' = "tag_begin"
    /\ Tick
    /\ UNCHANGED <<runVars, treeVars, urlVars, blockVars, textVars, histVars,
                   closing, obrace, ebrace, hc_flags, parser_env, cur_tag,
                   tags, parsed>>

content_ignore_sp ==
    /\ Running /\ state = "content_ignore_sp"
    /\ IF ~g_ascii_isspace(in_data[p])
       THEN c' = p /\ state' = "content_write" /\ p' = p
       ELSE p' = p + 1 /\ UNCHANGED <<c, state>>
    /\ Tick
    /\ UNCHANGED <<runVars, treeVars, urlVars, blockVars, histVars, closing,
                   need_decode, save_space, dest, content_tag, obrace, ebrace,
                   hc_flags, parser_env, cur_tag, tags, css_style, parsed>>

sgml_content ==
    /\ Running /\ state = "sgml_content"
    /\ IF in_data[p] = ">"
       THEN state' = "tag_end" /\ cur_tag' = NULL /\ p' = p
       ELSE p' = p + 1 /\ UNCHANGED <<state, cur_tag>>
    /\ Tick
    /\ UNCHANGED <<runVars, treeVars, urlVars, blockVars, textVars, histVars,
                   closing, obrace, ebrace, hc_flags, parser_env, tags,
                   css_style, parsed>>

\* The call the tokenizer makes for each byte of a tag: one step of the
\* lexer on the byte at pos, its state kept in substate and savep across the
\* calls.  nxt is the byte the lexer reads at in + 1.
rspamd_html_parse_tag_content(tag, flags, pos, env, nxt) ==
    parse_tag_content(tag, flags, pos, env, nxt)

\* The lexer reads in[1] with no test against end.
tag_content ==
    /\ Running /\ state = "tag_content"
    /\ \E nxt \in Peek(p + 1) :
       \E r \in {rspamd_html_parse_tag_content(tags[cur_tag], hc_flags, p,
                                                parser_env, nxt)} :
         LET closes == in_data[p] = ">" /\ closing
         IN  /\ parser_env' = r.env
             /\ tags' = [tags EXCEPT ![cur_tag] =
                            IF closes
                            THEN [r.tag EXCEPT !.flags = @ \cup {"FL_CLOSING"}]
                            ELSE r.tag]
             /\ hc_flags' = IF closes /\ "FL_CLOSED" \in r.tag.flags
                            THEN r.flags \cup {"BAD_ELEMENTS"}
                            ELSE r.flags
    /\ IF in_data[p] = ">"
       THEN closing' = FALSE /\ state' = "tag_end" /\ p' = p
       ELSE p' = p + 1 /\ UNCHANGED <<closing, state>>
    /\ Tick
    /\ UNCHANGED <<runVars, treeVars, urlVars, blockVars, textVars, histVars,
                   obrace, ebrace, cur_tag, css_style, parsed>>

(* ------------------------------ tag_end ------------------------------- *)

\* What tag_end reads and writes for a tag, gathered in one record.
tag_end_state ==
    [tags |-> tags, nodes |-> nodes, cur_level |-> cur_level,
     total_tags |-> total_tags, flags |-> hc_flags, balanced |-> TRUE,
     limit_hit |-> FALSE, tags_seen |-> tags_seen,
     content_tag |-> content_tag, dest |-> dest, save_space |-> save_space,
     need_decode |-> need_decode, state |-> state, url |-> url,
     href_offset |-> href_offset, urls |-> urls, url_set |-> url_set,
     part_urls |-> part_urls, base_url |-> base_url,
     exceptions |-> exceptions, images |-> images, blocks |-> blocks,
     styles_blocks |-> styles_blocks, bgcolor |-> bgcolor]

\* The call of rspamd_html_process_tag and the choice of the next state.
tag_end_process_tag(e, tag) ==
    With(rspamd_html_process_tag(tag, TRUE), LAMBDA r :
        [e EXCEPT !.tags = r.tags, !.nodes = r.nodes,
                  !.cur_level = r.cur_level, !.total_tags = r.total_tags,
                  !.flags = r.flags, !.balanced = r.balanced,
                  !.limit_hit = r.limit_hit,
                  !.state = IF r.ret THEN "content_write"
                            ELSE IF r.tags[tag].id = "Tag_STYLE"
                            THEN "content_style"
                            ELSE "content_ignore",
                  !.need_decode = IF r.ret THEN FALSE ELSE @])

\* hc->tags_seen kept with DUPLICATE_ELEMENTS never set.
tag_end_seen_unflagged(e, tag) ==
    IF e.tags[tag].id # NoTagId
    THEN [e EXCEPT !.tags_seen = @ \cup {e.tags[tag].id}]
    ELSE e

\* hc->tags_seen and DUPLICATE_ELEMENTS.
tag_end_seen(e, tag) ==
    LET t == e.tags[tag]
    IN  IF t.id # NoTagId
        THEN [e EXCEPT !.flags = IF "CM_UNIQUE" \in t.flags
                                    /\ t.id \in e.tags_seen
                                 THEN @ \cup {"DUPLICATE_ELEMENTS"} ELSE @,
                       !.tags_seen = @ \cup {t.id}]
        ELSE e

tag_end_content_tag(e, tag) ==
    IF e.tags[tag].flags \cap {"FL_CLOSED", "FL_CLOSING"} = {}
    THEN [e EXCEPT !.content_tag = tag]
    ELSE e

\* "Handle newlines" for BR and HR, and for P, TR and DIV.
tag_end_newlines(e, tag) ==
    IF e.tags[tag].id \in {"Tag_BR", "Tag_HR", "Tag_P", "Tag_TR", "Tag_DIV"}
    THEN With(append_newline(e.dest, e.tags, e.content_tag),
              LAMBDA nl : [e EXCEPT !.dest = nl.dest, !.tags = nl.tags,
                                    !.save_space = FALSE])
    ELSE e

\* The component that rspamd_html_process_url rewrites in place: the first
\* href of the tag becomes the url string, or the trimmed slice.
url_tag_component_at(e, tag, found, i, start) ==
    IF i = 0 \/ start = <<"none">> THEN e
    ELSE [e EXCEPT !.tags[tag].parameters[i].val =
             IF found.rc = "URI_ERRNO_OK" THEN found.string
             ELSE strip_tail(strip_head(start))]

url_tag_component(e, tag, found) ==
    With(first_href(e.tags[tag]), LAMBDA i :
    With(IF i = 0 THEN <<>>
         ELSE href_with_base(e.tags[tag].parameters[i].val), LAMBDA start :
         url_tag_component_at(e, tag, found, i, start)))

\* url = rspamd_html_process_url_tag(pool, cur_tag, hc): the url is kept in
\* the pool, e.url points to it, and tag->extra too when it was NULL.
tag_end_url_kept(e1, tag, found) ==
    IF found.rc # "URI_ERRNO_OK"
    THEN [e1 EXCEPT !.url = NULL]
    ELSE [e1 EXCEPT
            !.urls = Append(@, found),
            !.url = Len(e1.urls) + 1,
            !.tags[tag].extra =
                IF e1.tags[tag].extra = NULL THEN Len(e1.urls) + 1 ELSE @,
            !.tags[tag].extra_kind =
                IF e1.tags[tag].extra = NULL THEN "url" ELSE @]

tag_end_url_tag(e, tag) ==
    With(rspamd_html_process_url_tag(e.tags[tag]), LAMBDA found :
    With(url_tag_component(e, tag, found), LAMBDA e1 :
         tag_end_url_kept(e1, tag, found)))

\* An opening tag with FL_HREF: the url of the href goes to the url set.
tag_end_href_added(e1, maybe_existing) ==
    IF maybe_existing = 0
    THEN With(rspamd_process_html_url(
                  [urls |-> e1.urls,
                   url_set |-> e1.url_set \cup {e1.url},
                   part_urls |-> e1.part_urls],
                  e1.url),
              LAMBDA r : [e1 EXCEPT !.urls = r.urls,
                                    !.url_set = r.url_set,
                                    !.part_urls = r.part_urls,
                                    !.href_offset = Len(e1.dest)])
    ELSE [e1 EXCEPT
            !.url = maybe_existing,
            !.urls[maybe_existing].count = @ + 1,
            !.href_offset = Len(e1.dest)]

tag_end_href_open(e, tag) ==
    With(tag_end_url_tag(e, tag), LAMBDA e1 :
        IF e1.url = NULL THEN e1
        ELSE With(url_set_find(e1.url_set, e1.urls, e1.urls[e1.url]),
                  LAMBDA maybe_existing :
                      tag_end_href_added(e1, maybe_existing)))

\* cur_level->prev: the sibling before node, 0 when node is a first child.
\* The leaf nodes kept as a count are children of node 2 and come before
\* any later child of it; -1 stands for one of them.
g_node_prev(ns, node, leaves) ==
    LET before == {m \in 1..(node - 1) : ns[m].parent = ns[node].parent}
    IN  IF before # {} THEN Max(before)
        ELSE IF ns[node].parent = 2 /\ leaves > 0 THEN -1
        ELSE 0

displayed_url_call(e, u) ==
    With(rspamd_html_check_displayed_url(
             [urls |-> e.urls, url_set |-> e.url_set,
              exceptions |-> e.exceptions],
             e.dest, e.href_offset, u),
         LAMBDA r : [e EXCEPT !.urls = r.urls, !.url_set = r.url_set,
                              !.exceptions = r.exceptions])

\* The Tag_A part of the FL_HREF branch.
tag_end_anchor_prev(e, prev) ==
    IF /\ ~e.balanced
       /\ prev > 0
       /\ e.tags[e.nodes[prev].data].id = "Tag_A"
       /\ "FL_CLOSING" \notin e.tags[e.nodes[prev].data].flags
       /\ e.tags[e.nodes[prev].data].extra # NULL
    THEN displayed_url_call(e, e.tags[e.nodes[prev].data].extra)
    ELSE e

tag_end_anchor_closing(e1, tag) ==
    IF "FL_CLOSING" \in e1.tags[tag].flags
    THEN With(IF e1.url # NULL /\ Len(e1.dest) > e1.href_offset
              THEN displayed_url_call(e1, e1.url) ELSE e1,
              LAMBDA e2 : [e2 EXCEPT !.href_offset = -1, !.url = NULL])
    ELSE e1

tag_end_anchor(e, tag) ==
    With(IF e.cur_level = NULL THEN 0
         ELSE g_node_prev(e.nodes, e.cur_level, bulk), LAMBDA prev :
    With(tag_end_anchor_prev(e, prev), LAMBDA e1 :
         tag_end_anchor_closing(e1, tag)))

\* The FL_HREF branch, and the Tag_BASE branch that is its alternative.
tag_end_base(e1, tag) ==
    IF e1.url # NULL
    THEN [e1 EXCEPT !.base_url = e1.url,
                    !.tags[tag].extra = e1.url,
                    !.tags[tag].extra_kind = "url",
                    !.tags[tag].flags = @ \cup {"FL_HREF"}]
    ELSE e1

\* The two branches with base_url written whether it is set or not.
tag_end_href_rebase(e, tag) ==
    LET t == e.tags[tag]
    IN  IF "FL_HREF" \in t.flags
        THEN With(IF "FL_CLOSING" \notin t.flags
                  THEN tag_end_href_open(e, tag) ELSE e,
                  LAMBDA e1 : IF t.id = "Tag_A"
                              THEN tag_end_anchor(e1, tag) ELSE e1)
        ELSE IF t.id = "Tag_BASE" /\ "FL_CLOSING" \notin t.flags
        THEN With(tag_end_url_tag(e, tag),
                  LAMBDA e1 : tag_end_base(e1, tag))
        ELSE e

tag_end_href(e, tag) ==
    LET t == e.tags[tag]
    IN  IF "FL_HREF" \in t.flags
        THEN With(IF "FL_CLOSING" \notin t.flags
                  THEN tag_end_href_open(e, tag) ELSE e,
                  LAMBDA e1 : IF t.id = "Tag_A"
                              THEN tag_end_anchor(e1, tag) ELSE e1)
        ELSE IF t.id = "Tag_BASE" /\ "FL_CLOSING" \notin t.flags
                /\ e.base_url = NULL
        THEN With(tag_end_url_tag(e, tag),
                  LAMBDA e1 : tag_end_base(e1, tag))
        ELSE e

tag_end_img(e, tag, with_dest) ==
    With(rspamd_html_process_img_tag(
             [urls |-> e.urls, url_set |-> e.url_set,
              part_urls |-> e.part_urls, dest |-> e.dest,
              flags |-> e.flags],
             e.tags[tag], tag, with_dest),
         LAMBDA r :
             [e EXCEPT !.urls = r.urls, !.url_set = r.url_set,
                       !.part_urls = r.part_urls, !.dest = r.dest,
                       !.flags = r.flags, !.images = Append(@, r.img),
                       !.tags[tag].flags = @ \cup {"FL_IMAGE"},
                       !.tags[tag].extra = Len(e.images) + 1,
                       !.tags[tag].extra_kind = "img"])

\* An opening FL_BLOCK tag: the block, its inherited style, its visibility.
tag_end_block_kept(e, tag, hc_bgcolor, push, bl) ==
    [e EXCEPT !.blocks = Append(@, bl),
              !.bgcolor = hc_bgcolor,
              !.tags[tag].extra = Len(e.blocks) + 1,
              !.tags[tag].extra_kind = "block",
              !.styles_blocks =
                  IF push THEN Append(@, Len(e.blocks) + 1) ELSE @,
              !.state = IF ~bl.visible THEN "content_ignore" ELSE @]

tag_end_block_styled(e, tag, hc_bgcolor, st) ==
    With(IF block_too_small(st.bl)
         THEN [st.bl EXCEPT !.visible = FALSE] ELSE st.bl,
         LAMBDA bl : tag_end_block_kept(e, tag, hc_bgcolor, st.push, bl))

tag_end_block_made(e, tag, made, has_parent) ==
    With(rspamd_html_propagate_style(
             made.bgcolor, e.tags[tag], made.bl, has_parent,
             IF has_parent THEN e.blocks[Last(e.styles_blocks)]
             ELSE made.bl),
         LAMBDA st : tag_end_block_styled(e, tag, made.bgcolor, st))

tag_end_block(e, tag) ==
    With(rspamd_html_process_block_tag(e.tags[tag], tag, e.bgcolor),
         LAMBDA made :
             tag_end_block_made(e, tag, made, e.styles_blocks # <<>>))

\* The img, link and block handlers.
tag_end_extra(e, tag) ==
    LET t == e.tags[tag]
        is_closing == "FL_CLOSING" \in t.flags
    IN  IF t.id = "Tag_IMG" /\ ~is_closing
        THEN tag_end_img(e, tag, TRUE)
        ELSE IF t.id = "Tag_LINK" /\ ~is_closing
        THEN IF link_is_icon(t) THEN tag_end_img(e, tag, FALSE) ELSE e
        ELSE IF "FL_BLOCK" \in t.flags
        THEN IF is_closing
             THEN [e EXCEPT !.styles_blocks =
                      IF Len(@) > 0 THEN SubSeq(@, 1, Len(@) - 1) ELSE @]
             ELSE tag_end_block(e, tag)
        ELSE e

\* The class of the tag as rspamd_html_process_tag sees it.
tag_class(t) ==
    IF t.id = NoTagId THEN "unknown"
    ELSE IF t.flags \cap {"CM_INLINE", "CM_EMPTY"} # {} THEN "inline"
    ELSE IF t.flags \cap {"FL_CLOSING", "FL_CLOSED"} # {} THEN "closing"
    ELSE "opening"

\* The handlers of case tag_end in the order of the code.
tag_end_handlers ==
    With(tag_end_process_tag(tag_end_state, cur_tag), LAMBDA e1 :
    With(tag_end_seen(e1, cur_tag), LAMBDA e2 :
    With(tag_end_content_tag(e2, cur_tag), LAMBDA e3 :
    With(tag_end_newlines(e3, cur_tag), LAMBDA e4 :
    With(tag_end_href(e4, cur_tag), LAMBDA e5 :
         tag_end_extra(e5, cur_tag))))))

\* The processor after the handlers have run.
tag_end_assign(e) ==
    /\ tags' = e.tags
    /\ nodes' = e.nodes
    /\ cur_level' = e.cur_level
    /\ total_tags' = e.total_tags
    /\ hc_flags' = e.flags
    /\ tags_seen' = e.tags_seen
    /\ content_tag' = e.content_tag
    /\ dest' = e.dest
    /\ save_space' = e.save_space
    /\ need_decode' = e.need_decode
    /\ state' = e.state
    /\ url' = e.url
    /\ href_offset' = e.href_offset
    /\ urls' = e.urls
    /\ url_set' = e.url_set
    /\ part_urls' = e.part_urls
    /\ base_url' = e.base_url
    /\ exceptions' = e.exceptions
    /\ images' = e.images
    /\ blocks' = e.blocks
    /\ styles_blocks' = e.styles_blocks
    /\ bgcolor' = e.bgcolor
    /\ dropped' = IF e.limit_hit THEN dropped + 1 ELSE dropped
    /\ last_call' =
         IF cur_tag # NULL
         THEN [class |-> tag_class(tags[cur_tag]),
               at_limit |-> ~tags_below_limit(total_tags),
               limit_hit |-> e.limit_hit]
         ELSE last_call

tag_end ==
    /\ Running /\ state = "tag_end"
    /\ parser_env' = parser_env_reset
    /\ \E e \in {IF cur_tag # NULL THEN tag_end_handlers
                  ELSE [tag_end_state EXCEPT !.state = "content_write"]} :
           tag_end_assign(e)
    /\ p' = p + 1
    /\ c' = p + 1
    /\ cur_tag' = NULL
    /\ Tick
    /\ UNCHANGED <<runVars, bulk, closing, obrace, ebrace, css_style, parsed>>

\* rspamd_html_propagate_lengths over the tree in post order: every node
\* after its children, so from the last node made to the first.  The leaf
\* nodes kept as a count hold no text and add nothing.
RECURSIVE children_length(_, _, _, _)
children_length(ns, ts, n, m) ==
    IF m = 0 THEN 0
    ELSE (IF ns[m].parent = n THEN ts[ns[m].data].content_length ELSE 0)
         + children_length(ns, ts, n, m - 1)

RECURSIVE propagate_lengths(_, _, _)
propagate_lengths(ns, ts, n) ==
    IF n <= 1 THEN ts
    ELSE With(children_length(ns, ts, n, Len(ns)), LAMBDA len :
         With([ts EXCEPT ![ns[n].data].content_length = @ + len],
              LAMBDA ts1 : propagate_lengths(ns, ts1, n - 1)))

\* The end of the input: the lengths are summed and dest is returned.
process_part_return ==
    /\ ~parsed /\ p > Len(in_data)
    /\ tags' = propagate_lengths(nodes, tags, Len(nodes))
    /\ parsed' = TRUE
    /\ UNCHANGED <<runVars, treeVars, urlVars, blockVars, textVars, histVars,
                   p, state, closing, obrace, ebrace, hc_flags, parser_env,
                   cur_tag, css_style, stall>>

(* ------------------------------ inputs -------------------------------- *)

\* The concatenations of at most n strings of toks.
RECURSIVE TokenStrings(_, _)
TokenStrings(toks, n) ==
    IF n = 0 THEN {<<>>}
    ELSE LET shorter == TokenStrings(toks, n - 1)
         IN  shorter \cup {s \o t : s \in shorter, t \in toks}

MaxTokens == 3
MaxPlain == 4
MaxAttrs == 2
MaxLimitTokens == 3
Headroom == 1

\* Tags and text that inputs are written from.
Tokens ==
    {<<"<", "p", ">">>,
     <<"<", "/", "p", ">">>,
     <<"<", "b", ">">>,
     <<"<", "b", "r", ">">>,
     <<"a">>,
     <<" ">>,
     <<"&", "l", "t", ";">>,
     <<"<", "x", ">">>,
     <<"<", "i", "m", "g", " ", "a", "l", "t", "=", "v", ">">>}

PlainBytes == {"a", "b", " ", "\n"}

\* Text with no tag and no entity.
PlainInputs == TokenStrings({<<b>> : b \in PlainBytes}, MaxPlain)

AttrNames ==
    {<<"h", "r", "e", "f">>,
     <<"s", "r", "c">>,
     <<"a", "l", "t">>}

\* An attribute as written: its name, its quote (<<>> for none) and its
\* value; a quoted value is empty or "u", a value with no quotes is "v".
Attrs ==
    [name : AttrNames, quote : {<<"\"">>, <<"'">>}, val : {<<>>, <<"u">>}]
    \cup [name : AttrNames, quote : {<<>>}, val : {<<"v">>}]

RECURSIVE AttrLists(_)
AttrLists(n) ==
    IF n = 0 THEN {<<>>}
    ELSE LET shorter == AttrLists(n - 1)
         IN  shorter \cup {Append(l, a) : l \in shorter, a \in Attrs}

\* The bytes of a tag "a" with the attributes of the list.
render_attr(a) == <<" ">> \o a.name \o <<"=">> \o a.quote \o a.val \o a.quote

render_tag(l) ==
    <<"<", "a">> \o Concat([i \in 1..Len(l) |-> render_attr(l[i])]) \o <<">">>

\* The href and src values of the url inputs.
UrlValues ==
    {<<"h", "t", "t", "p", ":", "/", "/", "a", ".", "b">>,
     <<"a", ".", "b">>,
     <<"h", "t", "t", "p", ":", "/", "/", "a", ".", "b", "?", "x", ":", "/", "/", "c">>,
     <<"h", "t", "t", "p", ":", "/", "/", "a", ".", "b", "?", "h", "t", "t", "p", ":", "/", "/", "c", ".", "d">>,
     <<"x", ":", "/", "/", "a", ".", "b">>,
     <<"h", "t", "t", "p", ":", "/", "/">>,
     <<"a", "@", "b", ".", "c">>,
     <<"/", "/", "a", ".", "b">>,
     <<"/", "c">>,
     <<"h", "t", "t", "p", ":", "/", "/", "a", ".", "b", "?", "h", "t", "t", "p", ":", "/", "/">>,
     <<"a">>,
     <<" ", "h", "t", "t", "p", ":", "/", "/", "a", ".", "b", " ">>,
     <<"d", "a", "t", "a", ":", "x">>,
     <<"c", "i", "d", ":", "x">>,
     <<"h", "t", "t", "p", ":", "/", "/", "a", ".", "b", "/", "c", "?", "d">>,
     <<"/", "/">>}

\* An anchor with text, an image, and an anchor after a base tag.
UrlInputs ==
    UNION {{<<"<", "a", " ", "h", "r", "e", "f", "=", "\"">> \o u
                \o <<"\"", ">", "t", "<", "/", "a", ">">>,
            <<"<", "i", "m", "g", " ", "s", "r", "c", "=", "\"">> \o u
                \o <<"\"", ">">>,
            <<"<", "b", "a", "s", "e", " ", "h", "r", "e", "f", "=", "\"",
              "h", "t", "t", "p", ":", "/", "/", "a", ".", "b", "/", "d", "\"",
              ">", "<", "a", " ", "h", "r", "e", "f", "=", "\"">> \o u
                \o <<"\"", ">">>} : u \in UrlValues}

\* Inputs that reach every state of the tokenizer and of the lexer.
CoverInputs ==
    {<<"a", " ", "<", "!", "-", "-", " ", "c", " ", "-", "-", ">", "<", "?", "x", "?", ">", "<", "!", "[", "a", "]", ">", "<", "!", "d", ">", "<", "s", "t", "y", "l", "e", ">", "a", "<", "/", "s", "t", "y", "l", "e", ">", "<", "x", ">", "a", "<", "b", ">">>,
     <<"<", "d", "i", "v", " ", "s", "t", "y", "l", "e", "=", "\"", "d", "i", "s", "p", "l", "a", "y", ":", "n", "o", "n", "e", "\"", ">", "a", "<", "/", "d", "i", "v", ">", "b">>,
     <<"<", "p", " ", "s", "t", "y", "l", "e", "=", "\"", "f", "o", "n", "t", "-", "s", "i", "z", "e", ":", "1", "p", "x", ";", "c", "o", "l", "o", "r", ":", "#", "f", "f", "0", "0", "0", "0", "\"", ">", "a", "<", "/", "p", ">", "b">>,
     <<"<", "b", "o", "d", "y", " ", "b", "g", "c", "o", "l", "o", "r", "=", "\"", "#", "f", "f", "0", "0", "0", "0", "\"", ">", "<", "d", "i", "v", " ", "b", "g", "c", "o", "l", "o", "r", "=", "\"", "r", "e", "d", "\"", " ", "c", "o", "l", "o", "r", "=", "\"", "#", "0", "0", "0", "\"", " ", "s", "i", "z", "e", "=", "1", ">", "a", "<", "/", "d", "i", "v", ">", "<", "/", "b", "o", "d", "y", ">">>,
     <<"<", "l", "i", "n", "k", " ", "r", "e", "l", "=", "\"", "i", "c", "o", "n", "\"", " ", "h", "r", "e", "f", "=", "\"", "h", "t", "t", "p", ":", "/", "/", "a", ".", "b", "\"", ">", "<", "t", "i", "t", "l", "e", ">", "a", "<", "/", "t", "i", "t", "l", "e", ">", "<", "t", "i", "t", "l", "e", ">", "b", "<", "/", "t", "i", "t", "l", "e", ">">>,
     <<"<", "a", " ", "h", "r", "e", "f", "=", "\"", "h", "t", "t", "p", ":", "/", "/", "a", ".", "b", "\"", ">", "h", "t", "t", "p", ":", "/", "/", "c", ".", "d", "<", "/", "a", ">">>,
     <<"<", "a", " ", "h", "r", "e", "f", "=", "\"", "h", "t", "t", "p", ":", "/", "/", "a", ".", "b", "\"", ">", "a", "<", "a", " ", "h", "r", "e", "f", "=", "\"", "h", "t", "t", "p", ":", "/", "/", "c", ".", "d", "\"", ">", "h", "t", "t", "p", ":", "/", "/", "a", ".", "b", "<", "/", "a", ">">>,
     <<"<", "p", ">", "<", "p", ">", "a", "<", "/", "b", ">", "<", "i", ">", "b", "<", "i", ">", "c", "<", "/", "p", ">", "<", "/", "p", ">">>,
     <<"a", " ", "b", " ", "c", " ", "d", " ", "e", " ", "f", " ", "g", " ", "h">>,
     <<"<", "!", "-", "-">>,
     <<"<", "!", "-">>,
     <<"<", "!", "-", "-", "-">>,
     <<"<", "!", "-", "-", ">">>,
     <<"<", "!", "-", "-", "-", ">">>,
     <<"<", "s", "t", "y", "l", "e", ">", "<", "/">>,
     <<"<", "s", "t", "y", "l", "e", ">", "a", "<", "/", "b">>,
     <<"<", "a", " ", "h", "r", "e", "f", "=", "u", "/">>,
     <<"<", "a", " ", "h", "r", "e", "f", "=", "\"", "u", "\"", "/">>,
     <<"<">>,
     <<"<", ">">>,
     <<"<", "/", ">">>,
     <<"<", "a", "<">>,
     <<"<", "p", "/", ">">>,
     <<"<", "?", ">">>,
     <<"<", "?", " ", "?", "a", ">">>,
     <<"<", "!", "[", "[", "]", "]", ">">>,
     <<"<", " ", "p", ">">>,
     <<"<", "a", " ", "\"", "b", "\"", ">">>,
     <<"<", "a", " ", "b", " ", "\"", "c", "\"", ">">>,
     <<"<", "P", ">", "&", "a", "m", "p", ";", "a", " ", "&", "l", "t", ";", "b", "<", "/", "P", ">", "c">>,
     <<"a", "<", "i", "m", "g", " ", "a", "l", "t", "=", "\"", "v", " ", "w", "\"", ">", "b", "<", "i", "m", "g", " ", "a", "l", "t", "=", "v", " ", "s", "r", "c", "=", "\"", "h", "t", "t", "p", ":", "/", "/", "a", ".", "b", "\"", ">">>,
     <<"<", "b", "a", "s", "e", " ", "h", "r", "e", "f", "=", "\"", "a", "\"", ">", "<", "b", "a", "s", "e", " ", "h", "r", "e", "f", "=", "\"", "h", "t", "t", "p", ":", "/", "/", "a", ".", "b", "\"", ">", "<", "b", "a", "s", "e", " ", "h", "r", "e", "f", "=", "\"", "h", "t", "t", "p", ":", "/", "/", "c", ".", "d", "\"", ">", "<", "a", " ", "h", "r", "e", "f", "=", "\"", "/", "c", "\"", ">">>,
     <<"<", "p", ">", "a", "<", "p", ">", "b", "<", "/", "p", ">", "c", "<", "/", "p", ">", "d", "<", "b", "r", ">">>,
     <<"<", "h", "e", "a", "d", ">", "<", "b", "o", "d", "y", ">", "<", "h", "e", "a", "d", ">">>,
     <<"<", "!", "-", "-", "a", "-", "b", "-", ">", "c", "-", "-", ">", "d", "<", "b", "r", ">">>,
     <<"<", "?", "a", ">", "b", "?", ">", "c">>,
     <<"<", "?", "a", "?", "b", "?", ">", "c">>,
     <<"a", " ", "&", " ", "b", " ">>,
     <<"<", "s", "t", "y", "l", "e", ">", "a", "<", "/", "p", ">", "c", "<", "/", "s", "t", "y", "l", "e", ">">>,
     <<"<", "x", "/", ">">>,
     <<"<", "a", " ", "h", "r", "e", "f", "\"", "u", "\"", ">">>,
     <<"<", "a", " ", "b", " ", "'", "c", "'", " ", "h", "r", "e", "f", "=", "u", ">">>,
     <<"<", "b", "a", "s", "e", " ", "h", "r", "e", "f", "=", "\"", "h", "t", "t", "p", ":", "/", "/", "a", ".", "b", "/", "d", "\"", ">", "<", "a", " ", "h", "r", "e", "f", "=", "\"", "/", "e", "f", "\"", ">">>,
     <<"<", "d", "i", "v", " ", "s", "t", "y", "l", "e", "=", "\"", "d", "i", "s", "p", "l", "a", "y", ":", "n", "o", "n", "e", "\"", ">", "a", "<", "b", ">", "c", "<", "/", "d", "i", "v", ">", "d">>,
     <<"<", "a", " ", "h", "r", "e", "f", "=", "\"", "h", "t", "t", "p", ":", "/", "/", "a", ".", "b", "\"", ">", "a", "<", "l", "i", "n", "k", " ", "h", "r", "e", "f", "=", "\"", "h", "t", "t", "p", ":", "/", "/", "c", ".", "d", "\"", ">", "b", "<", "/", "a", ">">>,
     <<"<", "a", " ", "h", "r", "e", "f", "=", "\"", " ", "a", "^A", "b", ".", "c", " ", "\"", ">">>,
     <<"<", "a", " ", "h", "r", "e", "f", "=", "\"", " ", "\"", ">">>,
     <<"<", "t", "i", "t", "l", "e", ">", "a", "<", "p", ">", "c", "<", "/", "p", ">", "d", "<", "/", "t", "i", "t", "l", "e", ">">>,
     <<"<", "t", "i", "t", "l", "e", ">", "a", "<", "!", "-", "-", "b", "-", "-", ">", "c", "<", "/", "t", "i", "t", "l", "e", ">">>,
     <<"<", "p", " ", "c", "o", "l", "o", "r", "=", "\"", "#", "f", "0", "0", "\"", ">", "<", "/", "d", "i", "v", ">">>}

\* The names of the known tags.
TagNames == {d.name : d \in html_tags_defs}

\* Two tags crossed: <X><Y>hi</X></Y>.
crossed(x, y) ==
    <<"<">> \o x \o <<">", "<">> \o y \o <<">", "h", "i", "<", "/">>
        \o x \o <<">", "<", "/">> \o y \o <<">">>

CrossedInputs ==
    {crossed(x, y) : x \in TagNames, y \in TagNames}
        \ {crossed(x, x) : x \in TagNames}

FreshInputs == TokenStrings(Tokens, MaxTokens) \cup PlainInputs
                   \cup UrlInputs \cup CoverInputs \cup CrossedInputs

\* Tags and text of the inputs that run into the tag limit.
LimitTokens ==
    {<<"<", "b", ">">>,
     <<"<", "p", ">">>,
     <<"<", "/", "p", ">">>,
     <<"<", "x", ">">>,
     <<"<", "b", "r", ">">>,
     <<"a">>}

LimitInputs == TokenStrings(LimitTokens, MaxLimitTokens)

(* ------------------------------- Init --------------------------------- *)

\* "Set white background color by default"
default_bgcolor == [valid |-> TRUE, r |-> 255, g |-> 255, b |-> 255, alpha |-> 0]

no_call == [class |-> "none", at_limit |-> FALSE, limit_hit |-> FALSE]

no_run == [dest |-> <<>>, flags |-> {}, url_set |-> {}, part_urls |-> <<>>,
           input |-> <<>>, mode |-> "none"]

\* The locals and the content root as the call finds them: a fresh content
\* root and an empty url set.
InitProcessor ==
    /\ p = 1
    /\ c = 1
    /\ state = "parse_start"
    /\ closing = FALSE
    /\ need_decode = FALSE
    /\ save_space = FALSE
    /\ dest = <<>>
    /\ obrace = 0
    /\ ebrace = 0
    /\ parser_env = parser_env_reset
    /\ href_offset = -1
    /\ url = NULL
    /\ cur_tag = NULL
    /\ content_tag = NULL
    /\ tags = <<>>
    /\ hc_flags = {}
    /\ tags_seen = {}
    /\ total_tags = 0
    /\ nodes = <<>>
    /\ bulk = 0
    /\ cur_level = NULL
    /\ urls = <<>>
    /\ url_set = {}
    /\ part_urls = <<>>
    /\ base_url = NULL
    /\ bgcolor = default_bgcolor
    /\ blocks = <<>>
    /\ styles_blocks = <<>>
    /\ images = <<>>
    /\ exceptions = <<>>
    /\ css_style = <<>>
    /\ parsed = FALSE
    /\ stall = 0
    /\ dropped = 0
    /\ last_call = no_call

\* allow_css is read only after a style tag.
allow_css_choices(input) ==
    IF rspamd_substring_search(rspamd_str_lc_utf8(input),
                               <<"<", "s", "t", "y", "l", "e">>) # -1
    THEN BOOLEAN ELSE {FALSE}

InitFresh ==
    /\ \E input \in FreshInputs :
         /\ in_data = input
         /\ allow_css \in allow_css_choices(input)
    /\ given = <<>>
    /\ consumed = 0
    /\ run = 1
    /\ first_run = no_run
    /\ InitProcessor

InitAttrs ==
    /\ \E l \in AttrLists(MaxAttrs) :
         /\ in_data = render_tag(l)
         /\ given = l
    /\ allow_css = FALSE
    /\ consumed = 0
    /\ run = 1
    /\ first_run = no_run
    /\ InitProcessor

\* The tags "<p>" and "<b>" as the lexer and the tree builder leave them
\* when "<p>" opens the input and "<b>" follows it.
limit_p_tag ==
    [new_html_tag EXCEPT
       !.id = "Tag_P", !.flags = {"CM_BLOCK", "CM_OPT", "FL_BLOCK"},
       !.name = <<"p">>, !.parent = 1, !.extra = 1, !.extra_kind = "block"]

limit_b_tag ==
    [new_html_tag EXCEPT
       !.id = "Tag_B", !.flags = {"CM_INLINE"}, !.name = <<"b">>,
       !.parent = 2]

limit_p_block ==
    rspamd_html_propagate_style(default_bgcolor, limit_p_tag,
                                new_html_block(1), FALSE,
                                new_html_block(1)).bl

\* The state after the first max_tags - Headroom tags of an input that
\* starts with "<p>" followed by "<b>" tags only, in_data the bytes that
\* follow them.  All the "<b>" nodes but the last are leaves of the node of
\* "<p>" that nothing refers to any more: they are kept as the count bulk.
InitLimit ==
    /\ in_data \in LimitInputs
    /\ allow_css = FALSE
    /\ given = <<>>
    /\ consumed = 3 * (max_tags - Headroom)
    /\ run = 1
    /\ first_run = no_run
    /\ p = 1
    /\ c = 1
    /\ state = "content_write"
    /\ closing = FALSE
    /\ need_decode = FALSE
    /\ save_space = FALSE
    /\ dest = <<>>
    /\ obrace = 0
    /\ ebrace = 0
    /\ parser_env = parser_env_reset
    /\ href_offset = -1
    /\ url = NULL
    /\ cur_tag = NULL
    /\ content_tag = 2
    /\ tags = <<limit_p_tag, limit_b_tag>>
    /\ hc_flags = {}
    /\ tags_seen = {"Tag_P", "Tag_B"}
    /\ total_tags = max_tags - Headroom
    /\ nodes = <<[data |-> NULL, parent |-> NULL], [data |-> 1, parent |-> 1],
                 [data |-> 2, parent |-> 2]>>
    /\ bulk = max_tags - Headroom - 2
    /\ cur_level = 2
    /\ urls = <<>>
    /\ url_set = {}
    /\ part_urls = <<>>
    /\ base_url = NULL
    /\ bgcolor = default_bgcolor
    /\ blocks = <<limit_p_block>>
    /\ styles_blocks = <<>>
    /\ images = <<>>
    /\ exceptions = <<>>
    /\ css_style = <<>>
    /\ parsed = FALSE
    /\ stall = 0
    /\ dropped = 0
    /\ last_call = [class |-> "inline", at_limit |-> FALSE,
                    limit_hit |-> FALSE]

Init == InitFresh \/ InitAttrs \/ InitLimit

vars == <<in_data, allow_css, p, c, state, closing, need_decode, save_space,
          dest, obrace, ebrace, parser_env, href_offset, url, cur_tag,
          content_tag, tags, hc_flags, tags_seen, total_tags, nodes, bulk,
          cur_level, urls, url_set, part_urls, base_url, bgcolor, blocks,
          styles_blocks, images, exceptions, css_style, parsed, stall,
          dropped, last_call, given, consumed, run, first_run>>

Next ==
    \/ parse_start
    \/ tag_begin
    \/ sgml_tag
    \/ xml_tag
    \/ xml_tag_end
    \/ compound_tag
    \/ comment_tag
    \/ comment_content
    \/ content_ignore
    \/ content_write
    \/ content_style
    \/ content_ignore_sp
    \/ sgml_content
    \/ tag_content
    \/ tag_end
    \/ process_part_return

Spec == Init /\ [][Next]_vars

\* The loop runs while it can: every iteration is taken.
FairSpec == Spec /\ WF_vars(Next)

(* ----------------------------- two runs ------------------------------- *)

\* What a run returns: the visible text, the flags, and the urls of the set
\* and of part_urls by their strings, with their counts.
run_result(mode) ==
    [dest |-> dest, flags |-> hc_flags,
     url_set |-> {<<urls[u].string, urls[u].count>> : u \in url_set},
     part_urls |-> [i \in 1..Len(part_urls) |-> urls[part_urls[i]].string],
     input |-> in_data, mode |-> mode]

\* A plain-text input: no "<" and no "&".
is_plain(x) == \A i \in 1..Len(x) : x[i] \notin {"<", "&"}

\* A second call with a fresh content root and an empty url set: on the
\* same input, or (for plain text) on the text the first call returned.
Restart(mode) ==
    /\ run = 1 /\ consumed = 0
    /\ first_run' = run_result(mode)
    /\ run' = 2
    /\ in_data' = IF mode = "same" THEN in_data ELSE dest
    /\ UNCHANGED <<allow_css, given, consumed>>
    /\ p' = 1
    /\ c' = 1
    /\ state' = "parse_start"
    /\ closing' = FALSE
    /\ need_decode' = FALSE
    /\ save_space' = FALSE
    /\ dest' = <<>>
    /\ obrace' = 0
    /\ ebrace' = 0
    /\ parser_env' = parser_env_reset
    /\ href_offset' = -1
    /\ url' = NULL
    /\ cur_tag' = NULL
    /\ content_tag' = NULL
    /\ tags' = <<>>
    /\ hc_flags' = {}
    /\ tags_seen' = {}
    /\ total_tags' = 0
    /\ nodes' = <<>>
    /\ bulk' = 0
    /\ cur_level' = NULL
    /\ urls' = <<>>
    /\ url_set' = {}
    /\ part_urls' = <<>>
    /\ base_url' = NULL
    /\ bgcolor' = default_bgcolor
    /\ blocks' = <<>>
    /\ styles_blocks' = <<>>
    /\ images' = <<>>
    /\ exceptions' = <<>>
    /\ css_style' = <<>>
    /\ parsed' = FALSE
    /\ stall' = 0
    /\ dropped' = 0
    /\ last_call' = no_call

\* The second call on the same input.
RestartSame ==
    /\ parsed
    /\ Restart("same")

\* The second call on the text the first call returned.
RestartOutput ==
    /\ parsed /\ is_plain(in_data)
    /\ Restart("output")

NextTwice == Next \/ RestartSame \/ RestartOutput

SpecTwice == Init /\ [][NextTwice]_vars

(* ------------------------------ claims -------------------------------- *)

\* The number of tag nodes of the tree: every node but the root sentinel.
tag_nodes == Len(nodes) - 1 + bulk

\* C1: in every reachable state the tag tree holds at most max_tags (8192)
\* tag nodes, the root sentinel not counted, whatever the tags of the input.
C1_TreeWithinLimit == tag_nodes <= max_tags

\* The tree is full and a tag has been dropped at the limit.
C1_Witness == tag_nodes = max_tags /\ dropped > 0

\* C2: whenever rspamd_html_process_tag has dropped a tag at the limit
\* without creating a node, TOO_MANY_TAGS is set when processing ends.
C2_DroppedIsFlagged == (parsed /\ dropped > 0) => "TOO_MANY_TAGS" \in hc_flags

\* C3: a call of rspamd_html_process_tag while the tag count has reached
\* the limit leaves the nodes of the tree, their parent links and cur_level
\* unchanged, for opening, closing and inline tags alike.
C3_DropLeavesTree ==
    [][(/\ Running /\ state = "tag_end" /\ cur_tag # NULL
        /\ total_tags >= max_tags)
       => (nodes' = nodes /\ bulk' = bulk /\ cur_level' = cur_level)]_vars

\* A closing tag has been dropped at the limit after another dropped tag.
C3_Witness ==
    /\ last_call.at_limit /\ last_call.limit_hit
    /\ last_call.class = "closing"
    /\ dropped = 2
    /\ tag_nodes = max_tags

\* C4: processing terminates on every input; the input position never
\* moves backwards, and at most two consecutive transitions of the outer
\* tokenizer leave the position where it is.
C4_Terminates == [][p' >= p]_vars /\ [](stall <= 2) /\ <>parsed

\* Two transitions in a row did not advance, past the first byte.
C4_Witness == stall = 2 /\ p > 1

\* C5: two runs on the same input bytes with a fresh content root, an empty
\* url set and the same allow_css end with the same visible text, the same
\* flags and the same urls.
C5_SameResult ==
    (parsed /\ run = 2 /\ first_run.mode = "same")
        => run_result("same") = first_run

\* C6: the visible text is never longer than 3 times the input.
C6_TextWithinBound == Len(dest) <= 3 * (consumed + Len(in_data))

\* Processing has ended with copied text, a tag-inserted "\r\n" and the alt
\* text of an image in the visible text.
C6_Witness ==
    /\ parsed /\ images # <<>>
    /\ \E i \in 1..Len(dest) : dest[i] = "\r"
    /\ \E i \in 1..Len(dest) : dest[i] = "v"
    /\ \E i \in 1..Len(dest) : dest[i] = "a"

\* The component kind of an attribute name of the map.
component_kind(name) ==
    (CHOOSE e \in html_components_map : e[1] = name)[2]

\* C7: after the lexer has consumed the whole tag, the tag holds at most one
\* value for every component kind, no value for a kind that no attribute
\* has, and only the value of the first attribute of the kind, whatever
\* that first value is.
C7_FirstAttributeWins ==
    (parsed /\ given # <<>> /\ Len(tags) = 1)
        => \A k \in {"HREF", "ALT"} :
             LET written == SelectSeq(given,
                                LAMBDA a : component_kind(a.name) = k)
                 stored == SelectSeq(tags[1].parameters,
                               LAMBDA q : q.type = k)
             IN  /\ Len(stored) <= 1
                 /\ written = <<>> => stored = <<>>
                 /\ \A i \in 1..Len(stored) : stored[i].val = written[1].val

\* C8: every url appended to part_urls has a host of non-zero length and a
\* known protocol.
C8_PartUrlsValid ==
    \A i \in 1..Len(part_urls) : url_not_damaged(urls[part_urls[i]])

\* x with every run of whitespace collapsed to one space.
RECURSIVE collapse_whitespace(_)
collapse_whitespace(x) ==
    IF x = <<>> THEN <<>>
    ELSE IF ~g_ascii_isspace(Head(x))
    THEN <<Head(x)>> \o collapse_whitespace(Tail(x))
    ELSE IF Len(x) > 1 /\ g_ascii_isspace(x[2])
    THEN collapse_whitespace(Tail(x))
    ELSE <<" ">> \o collapse_whitespace(Tail(x))

\* C9: for a plain-text input x the visible text is x with every run of
\* whitespace collapsed to one space, and processing that visible text
\* again returns it unchanged.
C9_PlainTextKept ==
    (parsed /\ consumed = 0 /\ is_plain(in_data))
        => /\ dest = collapse_whitespace(in_data)
           /\ (run = 2 /\ first_run.mode = "output") => dest = in_data

\* The bytes of x that are not whitespace.
non_space(x) == SelectSeq(x, LAMBDA b : ~g_ascii_isspace(b))

\* The bytes of x before its first "<", all of x when it has none.
before_first_lt(x) == SubSeq(x, 1, first_of(x, {"<"}) - 1)

\* x begins with the bytes of y.
starts_with(x, y) == Len(y) <= Len(x) /\ SubSeq(x, 1, Len(y)) = y

\* C10: when the first byte is not "<", BAD_START is set and the bytes
\* before the first "<" (or all bytes when there is none) are emitted to the
\* visible text; when the first byte is "<", BAD_START is not set.
C10_BadStart ==
    (parsed /\ consumed = 0 /\ run = 1 /\ in_data # <<>>)
        => IF in_data[1] # "<"
           THEN /\ "BAD_START" \in hc_flags
                /\ starts_with(non_space(dest),
                               non_space(decode_html_entitles_inplace(
                                             before_first_lt(in_data))))
           ELSE "BAD_START" \notin hc_flags

\* The tag that case tag_end is about to process is an opening base tag
\* whose href resolves to a url.
base_tag_resolves ==
    /\ Running /\ state = "tag_end" /\ cur_tag # NULL
    /\ tags[cur_tag].id = "Tag_BASE"
    /\ "FL_CLOSING" \notin tags[cur_tag].flags
    /\ rspamd_html_process_url_tag(tags[cur_tag]).rc = "URI_ERRNO_OK"

\* C11: base_url is written at most once.  While it is unset, a step sets it
\* exactly when the step processes an opening base tag whose href resolves
\* to a valid url; once it is set, no step changes it.
C11_BaseUrlWrittenOnce ==
    [][/\ base_url # NULL => base_url' = base_url
       /\ base_url = NULL => (base_url' # NULL <=> base_tag_resolves)]_vars

\* A base tag with a valid href is processed while base_url is already set.
C11_Witness ==
    /\ base_url # NULL
    /\ base_tag_resolves
    /\ rspamd_html_process_url_tag(tags[cur_tag]).string
           # urls[base_url].string

\* Some tag of the input is a body tag with a bgcolor attribute.
body_bgcolor_given ==
    \E t \in 1..Len(tags) :
        /\ tags[t].id = "Tag_BODY"
        /\ \E i \in 1..Len(tags[t].parameters) :
               tags[t].parameters[i].type = "BGCOLOR"

\* C12: when processing has ended and the input had no body tag with a
\* bgcolor attribute, the global bgcolor is opaque white: red, green and
\* blue 255, alpha 255, valid set.
C12_DefaultBgcolorOpaque ==
    (parsed /\ ~body_bgcolor_given)
        => bgcolor = [valid |-> TRUE, r |-> 255, g |-> 255, b |-> 255,
                      alpha |-> 255]

\* The node has no child.
is_leaf(n) == \A m \in 1..Len(nodes) : nodes[m].parent # n

\* The tag of the node carries FL_CLOSING.
closing_node(n) ==
    nodes[n].data # NULL /\ "FL_CLOSING" \in tags[nodes[n].data].flags

emitted == Len(dest') - Len(dest)

\* C14: content_length of every tag node is the sum of the content_length
\* of its children plus the visible-text bytes emitted while the tag was
\* open.  At the return every node holds its own count plus the sum over
\* its children; and before it, text that content_write emits while a tag
\* node is the current open node is counted, in full, for exactly one tag
\* that has not been closed.
C14_ContentLengths ==
    [][/\ (~parsed /\ parsed') =>
              \A n \in 2..Len(nodes) :
                  tags'[nodes[n].data].content_length =
                      tags[nodes[n].data].content_length
                          + children_length(nodes, tags', n, Len(nodes))
       /\ (/\ state = "content_write" /\ ~parsed'
           /\ emitted > 0
           /\ cur_level # NULL /\ nodes[cur_level].data # NULL) =>
              \E t \in 1..Len(tags) :
                  /\ "FL_CLOSED" \notin tags[t].flags
                  /\ tags'[t].content_length = tags[t].content_length + emitted
                  /\ \A u \in 1..Len(tags) :
                         u # t => tags'[u].content_length
                                      = tags[u].content_length]_vars

\* The urls that the step puts into the url set.
new_in_url_set == url_set' \ url_set

\* C15: every url that a step newly inserts into the url set is appended to
\* part_urls exactly once in that step, and nothing else is appended: a url
\* that was in the set already is never appended.
C15_NewUrlsAppendedOnce ==
    [][/\ Len(part_urls') = Len(part_urls) + Cardinality(new_in_url_set)
       /\ SubSeq(part_urls', 1, Len(part_urls)) = part_urls
       /\ {part_urls'[i] : i \in (Len(part_urls) + 1)..Len(part_urls')}
              = new_in_url_set]_vars

\* What C17 says of the end of processing: UNBALANCED is set, the text is
\* in the visible text, and the two opening tags have nodes in the tree.
crossed_outcome ==
    /\ "UNBALANCED" \in hc_flags
    /\ \E k \in 1..(Len(dest) - 1) : dest[k] = "h" /\ dest[k + 1] = "i"
    /\ \A t \in {1, 2} : \E n \in 2..Len(nodes) : nodes[n].data = t

\* The names of the known tags that are neither inline nor empty and are
\* not head tags.
BlockTagNames ==
    {d.name : d \in {e \in html_tags_defs :
                        e.flags \cap {"CM_INLINE", "CM_EMPTY", "CM_HEAD"} = {}}}

block_tag_step ==
    /\ Running /\ state = "tag_end" /\ cur_tag # NULL
    /\ tags[cur_tag].id # NoTagId
    /\ tags[cur_tag].flags \cap {"CM_INLINE", "CM_EMPTY"} = {}
    /\ tags_below_limit(total_tags)

\* The current open node and its ancestors, the open node first; the root
\* sentinel alone before the first call has made it.
open_path == IF nodes = <<>> THEN <<>> ELSE node_path(nodes, cur_level)

\* The current open node: the root sentinel (node 1) before it is made.
open_node == IF nodes = <<>> THEN 1 ELSE cur_level

\* The places of open_path whose node has the id of the tag at hand and is
\* not FL_CLOSED.
open_matches ==
    {k \in 1..Len(open_path) :
        /\ nodes[open_path[k]].data # NULL
        /\ tags[nodes[open_path[k]].data].id = tags[cur_tag].id
        /\ "FL_CLOSED" \notin tags[nodes[open_path[k]].data].flags}

\* The tree of the next state is the tree of this one.
same_tree ==
    nodes' = IF nodes = <<>> THEN <<[data |-> NULL, parent |-> NULL]>>
             ELSE nodes

\* C16: a block closing tag processed below the limit while an open node of
\* its id is among the current open node and its ancestors: the nearest
\* such node is marked FL_CLOSED (and no other tag is), the current open
\* node becomes the parent of that node, the node made for the tag is not
\* in the tree, and the tag is reported balanced.
C16_ClosingTagBalances ==
    [][(/\ block_tag_step
        /\ "FL_CLOSING" \in tags[cur_tag].flags
        /\ open_matches # {}) =>
           LET near == open_path[Min(open_matches)]
           IN  /\ "FL_CLOSED" \in tags'[nodes[near].data].flags
               /\ \A t \in 1..Len(tags) :
                      (t # nodes[near].data /\ t # cur_tag)
                          => tags'[t].flags = tags[t].flags
               /\ cur_level' = nodes[near].parent
               /\ same_tree
               /\ rspamd_html_process_tag(cur_tag, FALSE).balanced
               /\ ("UNBALANCED" \in hc_flags') = ("UNBALANCED" \in hc_flags)
      ]_vars

\* A closing tag has closed a node above the open node it was met in: the
\* closed node still has an open block tag as a child, and the current open
\* node is its parent.
C16_Witness ==
    \E n \in 2..Len(nodes) :
        /\ "FL_CLOSED" \in tags[nodes[n].data].flags
        /\ cur_level = nodes[n].parent
        /\ \E m \in 2..Len(nodes) :
               /\ nodes[m].parent = n
               /\ tags[nodes[m].data].flags
                      \cap {"CM_INLINE", "CM_EMPTY", "FL_CLOSED",
                            "FL_CLOSING"} = {}

\* The tags of a CM_UNIQUE id that tag_end has processed as opening tags.
unique_openings(id) ==
    {t \in 1..Len(tags) :
        /\ t # cur_tag
        /\ tags[t].id = id
        /\ "CM_UNIQUE" \in tags[t].flags
        /\ "FL_CLOSING" \notin tags[t].flags}

\* C18: when processing has ended and some CM_UNIQUE id has more than one
\* opening tag in the input, DUPLICATE_ELEMENTS is set.
C18_DuplicateElements ==
    (/\ parsed
     /\ \E d \in html_tags_defs : Cardinality(unique_openings(d.id)) > 1)
        => "DUPLICATE_ELEMENTS" \in hc_flags

\* Two opening head tags, and no closing one, have been processed to the
\* end of the input.
C18_Witness ==
    /\ parsed
    /\ Cardinality(unique_openings("Tag_HEAD")) > 1
    /\ \A t \in 1..Len(tags) : "FL_CLOSING" \notin tags[t].flags
    /\ "DUPLICATE_ELEMENTS" \in hc_flags

\* C19: a block closing tag processed below the limit while no open node of
\* its id is among the current open node and its ancestors: UNBALANCED is
\* set, the tag is reported not balanced, and the current open node is
\* unchanged.
C19_ClosingTagUnbalanced ==
    [][(/\ block_tag_step
        /\ "FL_CLOSING" \in tags[cur_tag].flags
        /\ open_matches = {}) =>
           /\ "UNBALANCED" \in hc_flags'
           /\ ~rspamd_html_process_tag(cur_tag, TRUE).balanced
           /\ cur_level' = open_node
      ]_vars

\* The node of a block closing tag that did not balance is the last child
\* of the current open node, and UNBALANCED is set.
C19_Witness ==
    /\ consumed = 0
    /\ "UNBALANCED" \in hc_flags
    /\ Len(nodes) >= 2
    /\ closing_node(Len(nodes))
    /\ tags[nodes[Len(nodes)].data].flags \cap {"CM_INLINE", "CM_EMPTY"} = {}
    /\ nodes[Len(nodes)].parent = cur_level

\* The tag at hand is an opening tag: neither FL_CLOSING nor FL_CLOSED.
opening_tag_step ==
    /\ block_tag_step
    /\ tags[cur_tag].flags \cap {"FL_CLOSING", "FL_CLOSED"} = {}

\* The tag of the current open node has the id of the tag at hand and lacks
\* FL_BLOCK.
repeated_tag ==
    /\ nodes # <<>>
    /\ nodes[cur_level].data # NULL
    /\ tags[nodes[cur_level].data].id = tags[cur_tag].id
    /\ "FL_BLOCK" \notin tags[nodes[cur_level].data].flags

\* The step appends one node, for the tag at hand and under parent, and
\* makes it the current open node.
pushed_under(parent) ==
    /\ nodes' = Append(IF nodes = <<>>
                       THEN <<[data |-> NULL, parent |-> NULL]>> ELSE nodes,
                       [data |-> cur_tag, parent |-> parent])
    /\ cur_level' = Len(nodes')

\* C20: an opening block tag processed below the limit while the tag of the
\* current open node has its id and lacks FL_BLOCK sets UNBALANCED, is
\* attached as the last child of the parent of the current open node and
\* becomes the current open node; any other opening block tag is attached
\* as the last child of the current open node and becomes the current open
\* node.
C20_OpeningTagAttached ==
    [][opening_tag_step =>
           IF repeated_tag
           THEN /\ "UNBALANCED" \in hc_flags'
                /\ pushed_under(nodes[cur_level].parent)
           ELSE pushed_under(open_node)
      ]_vars

\* A repeated tag is the current open node, a sibling of the node it
\* repeats.
C20_Witness ==
    /\ "UNBALANCED" \in hc_flags
    /\ cur_level = Len(nodes)
    /\ \E m \in 2..(Len(nodes) - 1) :
           /\ nodes[m].parent = nodes[cur_level].parent
           /\ tags[nodes[m].data].id = tags[nodes[cur_level].data].id
           /\ "FL_BLOCK" \notin tags[nodes[m].data].flags
           /\ tags[nodes[cur_level].data].flags
                  \cap {"FL_CLOSING", "FL_CLOSED", "CM_INLINE", "CM_EMPTY"} = {}

\* Case tag_end is about to hand a known inline or empty tag to
\* rspamd_html_process_tag below the tag limit.
inline_tag_step ==
    /\ Running /\ state = "tag_end" /\ cur_tag # NULL
    /\ tags[cur_tag].id # NoTagId
    /\ tags[cur_tag].flags \cap {"CM_INLINE", "CM_EMPTY"} # {}
    /\ tags_below_limit(total_tags)

\* The tag of the current open node has CM_HEAD, CM_UNKNOWN or FL_IGNORE.
open_node_ignored ==
    /\ nodes # <<>>
    /\ nodes[cur_level].data # NULL
    /\ tags[nodes[cur_level].data].flags
           \cap {"CM_HEAD", "CM_UNKNOWN", "FL_IGNORE"} # {}

\* C21: an inline or empty tag processed below the limit gets a node as the
\* last child of the current open node, the root sentinel included; the
\* current open node is unchanged; and the tag has FL_IGNORE afterwards
\* exactly when the tag of the current open node has CM_HEAD, CM_UNKNOWN or
\* FL_IGNORE.
C21_InlineTagAppended ==
    [][inline_tag_step =>
           /\ nodes' = Append(IF nodes = <<>>
                              THEN <<[data |-> NULL, parent |-> NULL]>>
                              ELSE nodes,
                              [data |-> cur_tag, parent |-> open_node])
           /\ cur_level' = open_node
           /\ ("FL_IGNORE" \in tags'[cur_tag].flags) = open_node_ignored
      ]_vars

\* The byte at q is a '>' directly preceded by two '-'.
ends_comment(q) ==
    /\ q >= 3 /\ q <= Len(in_data)
    /\ in_data[q] = ">" /\ in_data[q - 1] = "-" /\ in_data[q - 2] = "-"

\* The tokenizer is inside a comment: at the second '-' of "<!--", or
\* after it.
in_comment ==
    /\ Running
    /\ \/ state = "comment_content"
       \/ state = "comment_tag" /\ in_data[p] = "-"

\* C22: while the loop runs, a step taken inside a comment emits nothing and
\* stays in the comment states unless it stops at a '>' directly preceded
\* by two '-', and it passes over no such '>'; the tag_end step that follows
\* resumes content parsing right after the '>' and emits nothing; "<!-->"
\* and "<!--->" end with BAD_ELEMENTS set.
C22_CommentSkipped ==
    [][/\ in_comment =>
              /\ dest' = dest
              /\ p' <= Len(in_data) =>
                     /\ state' \in {"comment_content", "tag_end"}
                     /\ state' = "tag_end" => ends_comment(p')
                     /\ state' = "comment_content" =>
                            /\ ~ends_comment(p')
                                   \/ state = "comment_content"
                            /\ \A q \in p..(p' - 1) : ~ends_comment(q)
       /\ (Running /\ state = "tag_end" /\ cur_tag = NULL) =>
              /\ state' = "content_write"
              /\ p' = p + 1 /\ c' = p + 1
              /\ dest' = dest
       /\ (parsed' /\ in_data \in {<<"<", "!", "-", "-", ">">>,
                                   <<"<", "!", "-", "-", "-", ">">>}) =>
              /\ "BAD_ELEMENTS" \in hc_flags'
              /\ dest' = <<>>
      ]_vars

\* A comment ends at its "-->" after a '>' inside it that did not end it,
\* with nothing emitted.
C22_Witness ==
    /\ Running /\ state = "tag_end" /\ cur_tag = NULL
    /\ ends_comment(p) /\ ebrace >= 2
    /\ \E q \in 5..(p - 1) : in_data[q] = ">"
    /\ dest = <<>>

\* The index of the first "?>" that follows the "<?" an input starts with,
\* 0 when there is none.
pi_close ==
    LET ends == {k \in 3..(Len(in_data) - 1) :
                     in_data[k] = "?" /\ in_data[k + 1] = ">"}
    IN  IF Len(in_data) >= 2 /\ in_data[1] = "<" /\ in_data[2] = "?" /\ ends # {}
        THEN CHOOSE k \in ends : \A j \in ends : k <= j
        ELSE 0

\* The input is a processing instruction followed by letters only.
pi_then_text ==
    /\ pi_close # 0
    /\ \A i \in (pi_close + 2)..Len(in_data) : in_data[i] \in {"a", "b", "c", "d"}

\* C23 (as stated): an input made of "<?", any bytes, the first "?>" and
\* plain text ends with the XML flag alone and with that text as the
\* visible text.
C23_XmlSkippedToClose ==
    (parsed /\ pi_then_text) =>
        /\ hc_flags = {"XML"}
        /\ dest = SubSeq(in_data, pi_close + 2, Len(in_data))

\* C23 (amended): "<?" sets the XML flag; the instruction ends at the first
\* '>' after "<?" and none of its bytes is emitted; BAD_ELEMENTS is set by a
\* '>' met before any '?' and by every byte other than '>' met after the
\* first '?', and no other flag is written; the tag_end step at that '>'
\* resumes content parsing right after it.
C23_XmlSkippedToBracket ==
    [][/\ (Running /\ state = "tag_begin" /\ in_data[p] = "?") =>
              /\ state' = "xml_tag" /\ p' = p + 1
              /\ hc_flags' = hc_flags \cup {"XML"}
              /\ dest' = dest
       /\ (Running /\ state \in {"xml_tag", "xml_tag_end"}) =>
              /\ dest' = dest
              /\ IF in_data[p] = ">"
                 THEN state' = "tag_end" /\ p' = p
                 ELSE /\ p' = p + 1
                      /\ state' = IF state = "xml_tag" /\ in_data[p] # "?"
                                  THEN "xml_tag" ELSE "xml_tag_end"
              /\ hc_flags' = IF (state = "xml_tag") = (in_data[p] = ">")
                             THEN hc_flags \cup {"BAD_ELEMENTS"}
                             ELSE hc_flags
       /\ (Running /\ state = "tag_end" /\ cur_tag = NULL /\ in_data[p] = ">") =>
              /\ state' = "content_write"
              /\ p' = p + 1 /\ c' = p + 1
              /\ dest' = dest /\ hc_flags' = hc_flags
       /\ (parsed' /\ pi_then_text) =>
              /\ "XML" \in hc_flags'
              /\ ("BAD_ELEMENTS" \in hc_flags')
                     = (\E i \in 3..(pi_close - 1) : in_data[i] \in {"?", ">"})
      ]_vars

\* A processing instruction with a '?' inside ends at its "?>" with
\* BAD_ELEMENTS set and nothing emitted.
C23_Witness ==
    /\ Running /\ state = "tag_end" /\ cur_tag = NULL
    /\ pi_then_text /\ p = pi_close + 1
    /\ \E i \in 3..(pi_close - 1) : in_data[i] = "?"
    /\ hc_flags = {"XML", "BAD_ELEMENTS"}
    /\ dest = <<>>

\* The bytes of s with every run of whitespace between two other bytes
\* replaced by one space and the whitespace at both ends left out; gap tells
\* that whitespace has been passed since the last byte of out.
RECURSIVE squeeze(_, _, _)
squeeze(s, out, gap) ==
    IF s = <<>> THEN out
    ELSE IF g_ascii_isspace(Head(s)) THEN squeeze(Tail(s), out, TRUE)
    ELSE squeeze(Tail(s),
                 IF gap /\ out # <<>>
                 THEN out \o <<" ", Head(s)>> ELSE Append(out, Head(s)),
                 FALSE)

\* The input holds no tag, and the tokenizer has just emitted the text
\* before the whitespace byte at p - 1.
text_before_space ==
    /\ \A i \in 1..Len(in_data) : in_data[i] # "<"
    /\ state = "content_ignore_sp"

\* C24: in content with no tag, the visible text after a whitespace byte is
\* the text read so far with one space for every run of whitespace between
\* two non-whitespace bytes and no other whitespace.
C24_WhitespaceRunOneSpace ==
    text_before_space =>
        dest = decode_html_entitles_inplace(
                   squeeze(SubSeq(in_data, 1, p - 1), <<>>, FALSE))

\* A tag_end step for a BR, HR, P, TR or DIV tag.
newline_tag_step ==
    /\ Running /\ state = "tag_end" /\ cur_tag # NULL
    /\ tags[cur_tag].id \in {"Tag_BR", "Tag_HR", "Tag_P", "Tag_TR", "Tag_DIV"}

\* C25: the end of a BR, HR, P, TR or DIV tag appends nothing or "\r\n" to
\* the visible text, and "\r\n" only when the visible text is non-empty and
\* its last byte is not '\n'; the visible text never holds "\r\n\r\n".
C25_NewlineOnce ==
    /\ [][newline_tag_step =>
              \/ dest' = dest
              \/ /\ dest' = dest \o <<"\r", "\n">>
                 /\ dest # <<>> /\ Last(dest) # "\n"]_vars
    /\ [](\A i \in 1..(Len(dest) - 3) :
              SubSeq(dest, i, i + 3) # <<"\r", "\n", "\r", "\n">>)

\* A second tag of the kind ends right after the first and adds nothing.
C25_Witness ==
    /\ parsed
    /\ in_data = <<"a", "<", "b", "r", ">", "<", "p", ">">>
    /\ dest = <<"a", "\r", "\n">>

\* The offsets from p of the occurrences of "</s" or "</S" in the input.
style_ends ==
    {k \in 0..(Len(in_data) - p - 2) :
         /\ in_data[p + k] = "<" /\ in_data[p + k + 1] = "/"
         /\ g_ascii_tolower(in_data[p + k + 2]) = "s"}

\* C26: a content_style step with a "</s" ahead moves p to the '<' of the
\* first one and goes on with tag parsing; it emits nothing and hands the
\* bytes passed over to the CSS parser exactly when allow_css is set.
C26_StyleSkippedToClose ==
    [][(Running /\ state = "content_style" /\ style_ends # {}) =>
           LET end_style == Min(style_ends)
           IN  /\ state' = "tag_begin"
               /\ p' = p + end_style
               /\ dest' = dest
               /\ css_style' =
                      IF allow_css
                      THEN Append(css_style,
                                  SubSeq(in_data, p, p + end_style - 1))
                      ELSE css_style]_vars

\* The index of the byte that ends the name of the tag that starts at
\* name_begin: the first whitespace, '>' or '/' from there on.
name_end(tag) ==
    Min({q \in tag.name_begin..Len(in_data) :
            g_ascii_isspace(in_data[q]) \/ in_data[q] \in {">", "/"}})

\* The tag in hand at tag_end has a name that a '/' ended.
name_closed_tag ==
    /\ Running /\ state = "tag_end" /\ cur_tag # NULL
    /\ tags[cur_tag].name_begin # NULL
    /\ in_data[name_end(tags[cur_tag])] = "/"

\* C27: a tag whose name ended at a '/' has FL_CLOSED when it reaches tag_end.
C27_NameSlashClosed ==
    name_closed_tag => "FL_CLOSED" \in tags[cur_tag].flags

\* A tag_content step: one call of the lexer on the byte at p.
lexer_step == Running /\ state = "tag_content"

\* The byte at p is a quote.
at_quote == in_data[p] \in {"\"", "'"}

\* C28 (as stated): a quote met right after the bytes of an attribute name
\* gives the tag FL_BROKEN, sets BAD_ELEMENTS and puts the lexer in
\* ignore_bad_tag.
C28_QuoteAfterNameBreaks ==
    [][(/\ lexer_step /\ at_quote
        /\ parser_env.cur_state = "parse_attr_name"
        /\ parser_env.saved_p # NULL
        /\ g_ascii_isalnum(in_data[p - 1])) =>
           /\ "FL_BROKEN" \in tags'[cur_tag].flags
           /\ "BAD_ELEMENTS" \in hc_flags'
           /\ parser_env'.cur_state = "ignore_bad_tag"]_vars

\* C28 (amended): a quote met after an attribute name and whitespace, with no
\* '=' between, gives the tag FL_BROKEN, sets BAD_ELEMENTS and puts the lexer
\* in ignore_bad_tag, where it stays and stores nothing; a '"' met right
\* after the name starts a quoted value and a '\'' met there is a byte of the
\* name, both with no flag set.
C28_QuoteAfterSpaceBreaks ==
    [][/\ (lexer_step /\ at_quote
           /\ parser_env.cur_state = "spaces_before_eq") =>
              /\ "FL_BROKEN" \in tags'[cur_tag].flags
              /\ "BAD_ELEMENTS" \in hc_flags'
              /\ parser_env'.cur_state = "ignore_bad_tag"
              /\ tags'[cur_tag].parameters = tags[cur_tag].parameters
       /\ (lexer_step /\ parser_env.cur_state = "ignore_bad_tag") =>
              /\ parser_env' = parser_env
              /\ tags'[cur_tag].parameters = tags[cur_tag].parameters
       /\ (lexer_step /\ at_quote
           /\ parser_env.cur_state = "parse_attr_name"
           /\ parser_env.saved_p # NULL) =>
              /\ parser_env'.cur_state =
                     IF in_data[p] = "\"" THEN "parse_start_dquote"
                     ELSE "parse_attr_name"
              /\ hc_flags' = hc_flags
              /\ ~("FL_BROKEN" \in tags'[cur_tag].flags)
      ]_vars

\* A tag with a quote after an attribute name and a space ends broken, and
\* the href written after the quote is not stored.
C28_Witness ==
    /\ Running /\ state = "tag_end" /\ cur_tag # NULL
    /\ parser_env.cur_state = "ignore_bad_tag"
    /\ "FL_BROKEN" \in tags[cur_tag].flags
    /\ "BAD_ELEMENTS" \in hc_flags
    /\ tags[cur_tag].parameters = <<>>
    /\ \E k \in 1..Len(in_data) : MatchAt(in_data, <<"h", "r", "e", "f", "=">>, k)

\* C29: after a call of the lexer on a byte of a tag the caller holds the
\* lexer state that the call reached.
C29_LexerStateSeen ==
    lexer_step =>
        \A nxt \in Peek(p + 1) :
            With(parse_tag_content(tags[cur_tag], hc_flags, p, parser_env, nxt),
                 LAMBDA r : env_after_call(parser_env, r) = r.env)

\* The slice the tag_end step of the tag in hand passes to
\* rspamd_html_process_url, trimmed; <<>> when it passes none.
href_trimmed ==
    IF Running /\ state = "tag_end" /\ cur_tag # NULL
       /\ "FL_HREF" \in tags[cur_tag].flags
       /\ first_href(tags[cur_tag]) # 0
    THEN With(href_with_base(
                  tags[cur_tag].parameters[first_href(tags[cur_tag])].val),
              LAMBDA v : IF v = <<"none">> THEN <<>>
                         ELSE strip_tail(strip_head(v)))
    ELSE <<>>

\* The indices of the bytes of s that are not ASCII alphanumeric.
non_alnum(s) == {i \in 1..Len(s) : ~g_ascii_isalnum(s[i])}

\* s has no "://", does not start with mailto:, tel: or callto:, and holds a
\* byte that is not alphanumeric.
schemaless_href(s) ==
    /\ rspamd_substring_search(s, str_sep) = -1
    /\ ~MatchAt(s, str_mailto, 0) /\ ~MatchAt(s, str_tel, 0)
    /\ ~MatchAt(s, str_callto, 0)
    /\ non_alnum(s) # {}

\* The prefix by the first byte of s that is not alphanumeric: <<"none">>
\* for no URL.
prefix_by_first(s) ==
    With(Min(non_alnum(s)), LAMBDA i :
        IF i = 1 /\ Len(s) >= 2 /\ s[1] = "/" /\ s[2] = "/"
        THEN <<"h", "t", "t", "p", ":">>
        ELSE IF s[i] = "@"
        THEN <<"m", "a", "i", "l", "t", "o", ":", "/", "/">>
        ELSE IF s[i] = ":" /\ i # 1 THEN <<>>
        ELSE IF i = 1 THEN <<"none">>
        ELSE <<"h", "t", "t", "p", ":", "/", "/">>)

href_value ==
    IF Running /\ state = "tag_end" /\ cur_tag # NULL
       /\ "FL_HREF" \in tags[cur_tag].flags
       /\ first_href(tags[cur_tag]) # 0
    THEN tags[cur_tag].parameters[first_href(tags[cur_tag])].val
    ELSE <<>>

\* v begins with a single '/' and holds no "://".
host_relative(v) ==
    /\ Len(v) >= 2 /\ v[1] = "/" /\ v[2] # "/"
    /\ rspamd_substring_search(v, str_sep) = -1

\* C31: with base_url set, an href that begins with a single '/' and holds
\* no "://" is handed to rspamd_html_process_url as scheme://host of
\* base_url followed by the href.
C31_HostRelativeHref ==
    (base_url # NULL /\ host_relative(href_value)) =>
        href_with_base(href_value)
            = SubSeq(urls[base_url].string, 1, urls[base_url].protocollen)
                  \o str_sep \o urls[base_url].host \o href_value

\* A tag_end step for an opening FL_BLOCK tag.
opening_block_step ==
    /\ Running /\ state = "tag_end" /\ cur_tag # NULL
    /\ "FL_BLOCK" \in tags[cur_tag].flags
    /\ "FL_CLOSING" \notin tags[cur_tag].flags

\* The block of the tag in hand as its own attributes define it.
own_block == rspamd_html_process_block_tag(tags[cur_tag], cur_tag, bgcolor).bl

\* The step pushes the block it makes onto the style stack.
block_pushed == styles_blocks' = Append(styles_blocks, Len(blocks) + 1)

\* C32: an opening block tag pushes its block exactly when the tag is not
\* self-closed and its own attributes define background colour, font colour
\* and font size; otherwise the style stack is left alone.
C32_PushWhenFullyDefined ==
    [][opening_block_step =>
           IF /\ own_block.background_color.valid
              /\ own_block.font_color.valid
              /\ own_block.font_size # -1
              /\ "FL_CLOSED" \notin tags[cur_tag].flags
           THEN block_pushed
           ELSE styles_blocks' = styles_blocks]_vars

\* The tags of the nodes from the current open node up to the root that
\* are still open and whose block is not visible.
hidden_open ==
    {nodes[open_path[k]].data : k \in 1..Len(open_path)} \cap
    {t \in 1..Len(tags) :
        /\ "FL_CLOSED" \notin tags[t].flags
        /\ tags[t].extra_kind = "block"
        /\ ~blocks[tags[t].extra].visible}

\* C33: while an opening block tag with a non-visible block is still open,
\* no step of content_write changes the visible text.
C33_HiddenBlockSilent ==
    [][(Running /\ state = "content_write" /\ hidden_open # {}) =>
           dest' = dest]_vars

\* A tag_end step for a closing a tag.
closing_anchor_step ==
    /\ Running /\ state = "tag_end" /\ cur_tag # NULL
    /\ tags[cur_tag].id = "Tag_A"
    /\ "FL_CLOSING" \in tags[cur_tag].flags

\* The exceptions the step records.
new_exceptions == SubSeq(exceptions', 1, Len(exceptions') - Len(exceptions))

\* The text from href_offset to the end of the visible text, trimmed.
displayed_slice == strip_tail(strip_head(SubSeq(dest, href_offset + 1, Len(dest))))

\* C34: the end of a closing a tag with a captured URL and text after
\* href_offset records an exception when the slice from href_offset spells
\* a URL, every exception it records spans that slice, and it leaves
\* href_offset at -1 and no URL captured; the captured URL and href_offset
\* are those of an anchor, since the end of no other tag writes them.
C34_DisplayedSlice ==
    [][/\ closing_anchor_step =>
              /\ href_offset' = -1 /\ url' = NULL
              /\ dest' = dest
              /\ \A i \in 1..Len(new_exceptions) :
                     /\ new_exceptions[i].pos = href_offset
                     /\ new_exceptions[i].len = Len(dest) - href_offset
              /\ (url # NULL /\ href_offset >= 0 /\ Len(dest) > href_offset
                  /\ rspamd_html_url_is_phished(urls[url],
                                                displayed_slice).url_found)
                     => new_exceptions # <<>>
       /\ (Running /\ state = "tag_end" /\ cur_tag # NULL
           /\ tags[cur_tag].id # "Tag_A") =>
              /\ href_offset' = href_offset
              /\ url' = url
      ]_vars

\* The indices (1-based) of the bytes the next step reads besides the byte
\* at p: p[0] after p++ in comment_tag, p[end_style + 2] in content_style,
\* in[1] in the lexer states that test for "/>".
reads_ahead ==
    IF ~Running THEN {}
    ELSE IF state = "comment_tag" /\ in_data[p] = "-" THEN {p + 1}
    ELSE IF state = "content_style"
    THEN With(rspamd_substring_search(SubSeq(in_data, p, Len(in_data)),
                                      <<"<", "/">>),
              LAMBDA end_style :
                  IF end_style = -1 THEN {} ELSE {p + end_style + 2})
    ELSE IF /\ state = "tag_content" /\ in_data[p] = "/"
            /\ parser_env.cur_state \in
                   {"parse_value", "parse_end_dquote", "parse_end_squote",
                    "spaces_after_param"}
    THEN {p + 1}
    ELSE {}

\* C35: every byte a step reads lies inside the input.
C35_ReadsInsideInput == \A i \in reads_ahead : i <= Len(in_data)

(* ----------------------- C36: the decoded buffer ------------------------ *)

\* len-- on the guint len: below zero the value wraps to the top of the
\* guint range, which r.wrapped records.
guint_dec(r) ==
    IF r.len = 0 THEN [r EXCEPT !.wrapped = TRUE]
    ELSE [r EXCEPT !.len = @ - 1]

\* The head loop of rspamd_html_process_url on the slice v: r.start is the
\* offset of start (and of p) in v, r.len the guint len, r.reads the offsets
\* the loop dereferences.
RECURSIVE url_trim_head(_, _)
url_trim_head(v, r) ==
    IF r.len > 0 \/ r.wrapped
    THEN LET seen == [r EXCEPT !.reads = @ \cup {r.start}]
         IN  IF r.start < Len(v) /\ g_ascii_isspace(v[r.start + 1])
             THEN url_trim_head(v, guint_dec([seen EXCEPT !.start = @ + 1]))
             ELSE seen
    ELSE r

\* The trailing loop: at is the offset of p in v, -1 included.
RECURSIVE url_trim_tail(_, _, _)
url_trim_tail(v, r, at) ==
    IF at >= r.start
    THEN LET seen == [r EXCEPT !.reads = @ \cup {at}]
         IN  IF at < Len(v) /\ g_ascii_isspace(v[at + 1])
             THEN url_trim_tail(v, guint_dec(seen), at - 1)
             ELSE seen
    ELSE r

\* start, len and the offsets read once both loops are done.
url_trim(v) ==
    With(url_trim_head(v, [start |-> 0, len |-> Len(v), reads |-> {},
                           wrapped |-> FALSE]),
         LAMBDA h : url_trim_tail(v, h, h.start + h.len - 1))

RECURSIVE url_count(_, _)
url_count(s, i) ==
    IF i > Len(s) THEN 0
    ELSE (IF ~g_ascii_isgraph(s[i]) THEN 3 ELSE 1) + url_count(s, i + 1)

\* dlen with nothing added for the prefix.
url_dlen_no_prefix(s, prefix) == url_count(s, 1)

\* dlen at the allocation: three for a byte that is not graphic, one for
\* any other byte, and the length of the prefix when one is prepended.
url_dlen(s, prefix) == url_count(s, 1) + Len(prefix)

\* The bytes written to decoded: the prefix, what each byte becomes, and the
\* final NUL.
url_written(s, prefix) ==
    Len(prefix) + Len(Concat([i \in 1..Len(s) |-> url_encode_byte(s[i])])) + 1

\* The slice rspamd_html_process_url is handed for the tag in hand at
\* tag_end, <<"none">> when it is not called.
url_slice ==
    IF href_value = <<>> THEN <<"none">> ELSE href_with_base(href_value)

url_trimmed == url_trim(url_slice)

url_kept ==
    SubSeq(url_slice, url_trimmed.start + 1,
           url_trimmed.start + url_trimmed.len)

\* C36: rspamd_html_process_url writes at most dlen + 1 bytes into the
\* buffer of dlen + 1 bytes, and the two trimming loops read only bytes of
\* the slice and leave start and len inside it, len never wrapping.
C36_UrlBufferFits ==
    url_slice # <<"none">> =>
        /\ \A o \in url_trimmed.reads : 0 <= o /\ o < Len(url_slice)
        /\ ~url_trimmed.wrapped
        /\ url_trimmed.start + url_trimmed.len <= Len(url_slice)
        /\ url_kept = strip_tail(strip_head(url_slice))
        /\ url_prefix(url_kept) # <<"none">> =>
               url_written(url_kept, url_prefix(url_kept))
                   <= url_dlen(url_kept, url_prefix(url_kept)) + 1

\* A slice with spaces at both ends and a control byte, given a prefix.
C36_Witness ==
    /\ url_slice # <<"none">>
    /\ url_trimmed.start > 0
    /\ url_trimmed.start + url_trimmed.len < Len(url_slice)
    /\ \E i \in 1..Len(url_kept) : url_encode_byte(url_kept[i]) = <<"%", "0", "0">>
    /\ url_prefix(url_kept) = str_http \o str_sep
    /\ url_written(url_kept, url_prefix(url_kept))
           = url_dlen(url_kept, url_prefix(url_kept)) + 1

(* ----------------------- C37: the open path ----------------------------- *)

\* The tags of the current open node and of its ancestors.
open_path_tags ==
    {nodes[open_path[k]].data : k \in 1..Len(open_path)} \ {NULL}

\* C37: once rspamd_html_process_tag has run, the current open node is
\* non-null and is a node of the tree whose path ends at the root sentinel,
\* and every tag on that path is an opening block tag that is still open:
\* it carries neither FL_CLOSED nor FL_CLOSING.
C37_OpenPathOpen ==
    nodes # <<>> =>
        /\ cur_level # NULL
        /\ cur_level \in 1..Len(nodes)
        /\ Last(open_path) = 1
        /\ nodes[1].data = NULL
        /\ \A k \in 1..Len(open_path) :
               nodes[open_path[k]].data = NULL => open_path[k] = 1
        /\ \A t \in open_path_tags :
               /\ tags[t].flags \cap {"FL_CLOSED", "FL_CLOSING"} = {}
               /\ tags[t].flags \cap {"CM_INLINE", "CM_EMPTY"} = {}

\* A closing tag has closed a node of the tree and moved the level to its
\* parent, which is an open tag.
C37_Witness ==
    /\ nodes # <<>>
    /\ open_path_tags # {}
    /\ \E n \in 1..Len(nodes) :
           /\ nodes[n].data # NULL
           /\ "FL_CLOSED" \in tags[nodes[n].data].flags
           /\ "FL_CLOSING" \notin tags[nodes[n].data].flags
           /\ nodes[n].parent = cur_level

(* ----------------------- C38: ignored elements -------------------------- *)

\* The open elements that carry FL_IGNORE: the tags of the current open
\* node and of its ancestors with the flag.
ignored_open == {t \in open_path_tags : "FL_IGNORE" \in tags[t].flags}

\* C38: while an element that carries FL_IGNORE is open, no step of
\* content_write adds source text to the visible text.
C38_IgnoredElementSilent ==
    [][(Running /\ state = "content_write" /\ ignored_open # {})
           => dest' = dest]_vars

(* ----------------------- C39: unique elements --------------------------- *)

\* The opening tags of the id among all the tags of the input.
openings_of(id) ==
    {t \in 1..Len(tags) : tags[t].id = id /\ "FL_CLOSING" \notin tags[t].flags}

\* C39: when processing has ended and every CM_UNIQUE id has at most one
\* opening tag in the input, DUPLICATE_ELEMENTS is not set.
C39_NoDuplicateWithoutRepeat ==
    (/\ parsed
     /\ \A d \in html_tags_defs :
            "CM_UNIQUE" \in d.flags => Cardinality(openings_of(d.id)) <= 1)
        => "DUPLICATE_ELEMENTS" \notin hc_flags

(* ----------------------- C40: the style stack --------------------------- *)

\* tag_end has a closing FL_BLOCK tag in hand.
closing_block_step ==
    /\ Running /\ state = "tag_end" /\ cur_tag # NULL
    /\ {"FL_BLOCK", "FL_CLOSING"} \subseteq tags[cur_tag].flags

\* The opening tag the closing tag in hand matches: the tag of the nearest
\* node of its id among the current open node and its ancestors that is not
\* FL_CLOSED; NULL when there is none.
matching_opening ==
    IF open_matches = {} THEN NULL
    ELSE nodes[open_path[Min(open_matches)]].data

\* C40: when a closing FL_BLOCK tag pops the style stack, it has a matching
\* opening tag and the popped block is the block of that tag; otherwise
\* the stack is left as it is.
C40_StackFollowsBlocks ==
    [][(closing_block_step /\ styles_blocks' # styles_blocks) =>
           /\ matching_opening # NULL
           /\ tags[matching_opening].extra_kind = "block"
           /\ Last(styles_blocks) = tags[matching_opening].extra]_vars

====
